---- MODULE Spec2Model ----
(***************************************************************************)
(* A model of the FastForestLib level-synchronous random-forest trainer:   *)
(*   - ImageSampleProvider (image cache and per-image sampling),           *)
(*   - ImageWeakLearner (candidate sampling and split statistics),         *)
(*   - LevelForestTrainer (train_forest / train_tree / level passes).      *)
(* Random-engine draws are inputs of the actions: every value a            *)
(* distribution can return is enumerated.                                  *)
(***************************************************************************)
EXTENDS Integers, Sequences, FiniteSets, TLC

VARIABLES
    images_,        \* MemoryImageProvider::images_ : image index -> Image
                    \* (fixed at construction)
    parameters_,    \* ImageSampleProvider::parameters_
    image_map_,     \* ImageSampleProvider::image_map_ : image index -> handle
    samples_,       \* ImageSampleProvider::samples_
    call_log,       \* observation: the calls made by the last provider
                    \* operation
    learner_parameters_,    \* ImageWeakLearner::parameters_
    training_parameters_,   \* LevelForestTrainer::training_parameters_
    pc,             \* where train_forest / train_tree / train_tree_level stand
    forest,         \* train_forest: the trees added so far
    tree_index,     \* train_forest: the loop variable i
    tree,           \* train_tree: the tree being grown
    current_level,  \* train_tree: the loop variable
    node_to_sample_map,     \* train_tree_level: frontier node -> sample pointers
    node_it,        \* train_tree_level: first node of the next part
    part,           \* the maps built by the last train_tree_level_part call
    bagging,        \* observation: the bag draws made, the draw each tree
                    \* was trained on and the features drawn for each tree
    parallel_call,  \* compute_split_statistics_parallel: its threads and the
                    \* split statistics they share
    rnd_engine,     \* observation: the features drawn from rnd_engine since
                    \* train_tree was entered, in the order of the draws
    learner_call,   \* observation: the last call of the weak learner made on
                    \* its own, its arguments and what it returned
    checkpoints     \* the checkpoint writes of train_forest so far, in order

provider_vars == <<images_, parameters_, image_map_, samples_, call_log>>

trainer_vars == <<learner_parameters_, training_parameters_, pc, forest,
                  tree_index, tree, current_level, node_to_sample_map, node_it,
                  part, bagging, parallel_call, rnd_engine, learner_call, checkpoints>>

vars == <<images_, parameters_, image_map_, samples_, call_log,
          learner_parameters_, training_parameters_, pc, forest, tree_index,
          tree, current_level, node_to_sample_map, node_it, part, bagging,
          parallel_call, rnd_engine, learner_call, checkpoints>>

----------------------------------------------------------------------------
(* Bounds of the model *)

\* load_samples_from_image is offered only while samples_ is at most this long
MaxSampleList == 1

\* longest batch handed to load_sample_batch
MaxBatchLen == 2

----------------------------------------------------------------------------
(* Generic helpers *)

Range(s) == { s[i] : i \in DOMAIN s }

Swap(s, i, j) == [s EXCEPT ![i] = s[j], ![j] = s[i]]

Min(a, b) == IF a < b THEN a ELSE b

\* std::round of the non-negative rational n/d (halves round away from zero)
RoundDiv(n, d) == (2 * n + d) \div (2 * d)

\* std::numeric_limits<std::int16_t>::max()
Int16Max == 32767

----------------------------------------------------------------------------
(* Image, ImageSample *)

\* An Image: data and label grids of one shape; pixel (x, y) of a grid given
\* as a sequence in the order of the loops "for x ... for y ...".
MkImage(w, h, data, label) ==
    [ width |-> w, height |-> h,
      data  |-> [ p \in (0..(w-1)) \X (0..(h-1)) |-> data[p[1] * h + p[2] + 1] ],
      label |-> [ p \in (0..(w-1)) \X (0..(h-1)) |-> label[p[1] * h + p[2] + 1] ] ]

\* the image vectors a MemoryImageProvider is built from, indexed from 0
ImageVector(s) == [ i \in 0..(Len(s) - 1) |-> s[i + 1] ]

ImageSample(image_index, x, y) == [ image |-> image_index, x |-> x, y |-> y ]

\* ImageSample::get_label on a sample of the image vector imgs
LabelOf(imgs, sample) == imgs[sample.image].label[<<sample.x, sample.y>>]

get_label(sample) == LabelOf(images_, sample)

----------------------------------------------------------------------------
(* ImageSampleProvider: sampling from one image *)

\* the test that keeps a pixel as a sample
IsNonBackground(label, background_label) == label # background_label

\* the candidate samples of an image, in the order of the loops over x and y
non_background_samples(imgs, p, image_index) ==
    LET img == imgs[image_index]
        all == [ k \in 1..(img.width * img.height) |->
                   ImageSample(image_index, (k - 1) \div img.height, (k - 1) % img.height) ]
    IN  SelectSeq(all, LAMBDA s : IsNonBackground(LabelOf(imgs, s), p.background_label))

num_of_samples_per_image_truncated(imgs, p, image_index) ==
    (p.samples_per_image_fraction[1] * imgs[image_index].width
         * imgs[image_index].height) \div p.samples_per_image_fraction[2]

\* round(samples_per_image_fraction * width * height)
num_of_samples_per_image(imgs, p, image_index) ==
    RoundDiv(p.samples_per_image_fraction[1] * imgs[image_index].width
                 * imgs[image_index].height,
             p.samples_per_image_fraction[2])

\* samples_per_image_fraction < 1.0
SubsamplingOn(p) ==
    p.samples_per_image_fraction[1] < p.samples_per_image_fraction[2]

\* number of index draws one load_samples_from_image call makes
num_of_samples(imgs, p, image_index) ==
    Min(num_of_samples_per_image(imgs, p, image_index),
        Len(non_background_samples(imgs, p, image_index)))

\* the outcomes of the index_dist draws of one call: draw i (from 0) is
\* uniform in [0, size - 1 - i]
DrawsFor(imgs, p, image_index) ==
    LET n   == Len(non_background_samples(imgs, p, image_index))
        num == IF SubsamplingOn(p) THEN num_of_samples(imgs, p, image_index) ELSE 0
    IN  { d \in [1..num -> 0..(n - 1)] :
            \A i \in 1..num : d[i] <= n - 1 - (i - 1) }

\* the subsampling loop: swap the drawn entry with back(), take back()
RECURSIVE SubsampleLoop(_, _, _, _)
SubsampleLoop(nb, taken, i, draws) ==
    IF i > Len(draws)
    THEN taken
    ELSE LET nb2 == Swap(nb, draws[i] + 1, Len(nb))
         IN  SubsampleLoop(nb2, Append(taken, nb2[Len(nb2)]), i + 1, draws)

\* the samples one load_samples_from_image call appends to samples_
SamplesFromImage(imgs, p, image_index, draws) ==
    IF SubsamplingOn(p)
    THEN SubsampleLoop(non_background_samples(imgs, p, image_index), << >>, 1, draws)
    ELSE non_background_samples(imgs, p, image_index)

----------------------------------------------------------------------------
(* The inputs of the sample provider *)

ImageA == MkImage(1, 3, <<0, 1, 1>>, <<0, 2, 0>>)
ImageB == MkImage(2, 1, <<1, 0>>, <<1, 0>>)

ProviderImageVectors == { ImageVector(<<ImageA, ImageB>>) }

\* the images of the training runs: binary data, labels 0 and 1
ImageT0 == MkImage(2, 2, <<0, 1, 0, 0>>, <<0, 0, 0, 1>>)
ImageT1 == MkImage(2, 2, <<1, 1, 0, 0>>, <<0, 0, 1, 1>>)

TrainingImageVectors == { ImageVector(<<ImageT0, ImageT1>>) }

\* fractions as <<numerator, denominator>>
ProviderParameters ==
    [ samples_per_image_fraction : { <<1, 3>>, <<9, 10>>, <<1, 1>> },
      bagging_fraction           : { <<1, 2>>, <<1, 1>> },
      background_label           : { 1, Int16Max } ]

\* what one load_samples_from_image call can append, over every outcome of
\* its draws
AppendedOutcomes ==
    [ imgs \in ProviderImageVectors \cup TrainingImageVectors |->
        [ p \in ProviderParameters |->
            [ i \in DOMAIN imgs |->
                { SamplesFromImage(imgs, p, i, d) : d \in DrawsFor(imgs, p, i) } ] ] ]

Appended(image_index) == AppendedOutcomes[images_][parameters_][image_index]

\* one outcome per item of a batch
RECURSIVE BatchAppended(_)
BatchAppended(batch) ==
    IF batch = << >>
    THEN { << >> }
    ELSE { <<a>> \o rest : a \in Appended(Head(batch)), rest \in BatchAppended(Tail(batch)) }

----------------------------------------------------------------------------
(* ImageSampleProvider: the image cache and the operations *)

get_num_of_images == Cardinality(DOMAIN images_)

\* ImageSampleProvider::ensure_image_is_loaded(image_index): get_image of the
\* memory provider returns the image held under that index.
ensure_image_is_loaded(map, image_index) ==
    IF image_index \in DOMAIN map
    THEN map
    ELSE [ i \in DOMAIN map \cup {image_index} |->
             IF i = image_index THEN image_index ELSE map[i] ]

\* ensure_image_is_loaded(image_index, old_image_map): the old map is looked
\* up first; either way the image ends up in the live map.
ensure_image_is_loaded_old(map, image_index, old_image_map) ==
    IF image_index \in DOMAIN map
    THEN map
    ELSE [ i \in DOMAIN map \cup {image_index} |->
             IF i = image_index
             THEN (IF image_index \in DOMAIN old_image_map
                   THEN old_image_map[image_index] ELSE image_index)
             ELSE map[i] ]

\* std::sort of a sequence of integers
RECURSIVE SortInts(_)
SortInts(s) ==
    IF Len(s) <= 1
    THEN s
    ELSE LET m == CHOOSE i \in DOMAIN s : \A j \in DOMAIN s : s[i] <= s[j]
         IN  <<s[m]>> \o SortInts(SubSeq(s, 1, m - 1) \o SubSeq(s, m + 1, Len(s)))

\* round(bagging_fraction * get_num_of_images())
num_of_images_per_bag ==
    RoundDiv(parameters_.bagging_fraction[1] * get_num_of_images,
             parameters_.bagging_fraction[2])

compute_batch_start_index_rounded(batch_index, num_of_batches, batch_size) ==
    RoundDiv(batch_index * batch_size, num_of_batches)

\* ImageSampleProvider::compute_batch_start_index
compute_batch_start_index(batch_index, num_of_batches, batch_size) ==
    (batch_index * batch_size) \div num_of_batches

\* ImageSampleProvider::compute_sample_bag_batches; image_draws are the
\* outcomes of image_dist, one per image of the bag
compute_sample_bag_batches(num_of_batches, image_draws) ==
    LET image_indices == SortInts(image_draws)
        M == Len(image_indices)
    IN  [ b \in 1..num_of_batches |->
            SubSeq(image_indices,
                   compute_batch_start_index(b - 1, num_of_batches, M) + 1,
                   compute_batch_start_index(b, num_of_batches, M)) ]

ImageDraws == [1..num_of_images_per_bag -> DOMAIN images_]

\* the entries of call_log
LoadSampleBatchCall == [ call |-> "load_sample_batch" ]

GetImageCall(image_index, throws) ==
    [ call |-> "get_image", image_index |-> image_index, throws |-> throws ]

LoadSamplesCall(image_index, appended) ==
    [ call |-> "load_samples_from_image", image_index |-> image_index,
      samples |-> appended ]

calls_get_image_ignoring_old(map, image_index, old_image_map) ==
    image_index \notin DOMAIN map

\* whether ensure_image_is_loaded(image_index, old_image_map) calls get_image
calls_get_image_old(map, image_index, old_image_map) ==
    /\ image_index \notin DOMAIN map
    /\ image_index \notin DOMAIN old_image_map

\* whether ensure_image_is_loaded(image_index) calls get_image
calls_get_image(map, image_index) == image_index \notin DOMAIN map

image_map_kept(map) == map

\* image_map_ after load_sample_batch has moved it to old_image_map and
\* cleared it
image_map_cleared(map) == << >>

\* the loop of load_sample_batch over items 1..upto, from the cleared live
\* map and the cleared sample list; appended[k] is what item k's
\* load_samples_from_image call appends
RECURSIVE LoadBatchItems(_, _, _, _)
LoadBatchItems(batch, upto, old_image_map, appended) ==
    IF upto = 0
    THEN [ map |-> image_map_cleared(old_image_map), samples |-> << >>,
           log |-> <<LoadSampleBatchCall>> ]
    ELSE LET before == LoadBatchItems(batch, upto - 1, old_image_map, appended)
             map    == ensure_image_is_loaded_old(before.map, batch[upto], old_image_map)
             log1   == IF calls_get_image_old(before.map, batch[upto], old_image_map)
                       THEN Append(before.log, GetImageCall(batch[upto], FALSE))
                       ELSE before.log
             log2   == IF calls_get_image(map, batch[upto])
                       THEN Append(log1, GetImageCall(batch[upto], FALSE))
                       ELSE log1
         IN  [ map     |-> ensure_image_is_loaded(map, batch[upto]),
               samples |-> before.samples \o appended[upto],
               log     |-> Append(log2, LoadSamplesCall(batch[upto], appended[upto])) ]

\* whether item k of the batch makes load_sample_batch call get_image
NeedsGetImage(batch, k, old_image_map, appended) ==
    calls_get_image_old(LoadBatchItems(batch, k - 1, old_image_map, appended).map,
                        batch[k], old_image_map)

Batches == UNION { [1..n -> DOMAIN images_] : n \in 0..MaxBatchLen }

samples_kept(samples) == samples

\* samples_ after the clear_samples() load_sample_batch starts with
samples_cleared(samples) == << >>

\* the body of load_sample_batch(batch, rnd_engine), every get_image
\* succeeding
load_sample_batch(batch, appended) ==
    LET r == LoadBatchItems(batch, Len(batch), image_map_, appended)
    IN  /\ image_map_' = r.map
        /\ samples_' = samples_cleared(samples_) \o r.samples
        /\ call_log' = r.log
        /\ UNCHANGED <<images_, parameters_>>

\* load_sample_batch(batch, rnd_engine)
LoadSampleBatch(batch, appended) ==
    /\ load_sample_batch(batch, appended)
    /\ UNCHANGED trainer_vars

\* load_sample_batch(batch, rnd_engine) when get_image throws at item k: the
\* items before k have been processed, samples_ was cleared at the start
LoadSampleBatchThrows(batch, k, appended) ==
    LET r == LoadBatchItems(batch, k - 1, image_map_, appended)
    IN  /\ k \in 1..Len(batch)
        /\ NeedsGetImage(batch, k, image_map_, appended)
        /\ image_map_' = r.map
        /\ samples_' = samples_cleared(samples_) \o r.samples
        /\ call_log' = Append(r.log, GetImageCall(batch[k], TRUE))
        /\ UNCHANGED <<images_, parameters_>>
        /\ UNCHANGED trainer_vars

\* compute_sample_bag_batches(num_of_batches, rnd_engine) called on its own:
\* a const method, only the observation changes
ComputeSampleBagBatches(num_of_batches, image_draws) ==
    /\ call_log' = << [ call |-> "compute_sample_bag_batches",
                        num_of_batches |-> num_of_batches,
                        batches |-> compute_sample_bag_batches(num_of_batches,
                                                               image_draws) ] >>
    /\ UNCHANGED <<images_, parameters_, image_map_, samples_>>
    /\ UNCHANGED trainer_vars

\* load_sample_bag(rnd_engine)
LoadSampleBag(image_draws, appended) ==
    LoadSampleBatch(compute_sample_bag_batches(1, image_draws)[1], appended)

\* load_samples_from_image(image_index, rnd_engine) called on its own
LoadSamplesFromImage(image_index, appended) ==
    /\ Len(samples_) <= MaxSampleList
    /\ image_map_' = ensure_image_is_loaded(image_map_, image_index)
    /\ samples_' = samples_ \o appended
    /\ call_log' =
           (IF calls_get_image(image_map_, image_index)
            THEN <<GetImageCall(image_index, FALSE)>> ELSE << >>)
           \o <<LoadSamplesCall(image_index, appended)>>
    /\ UNCHANGED <<images_, parameters_>>
    /\ UNCHANGED trainer_vars

\* clear_image_cache()
ClearImageCache ==
    /\ image_map_' = << >>
    /\ call_log' = << >>
    /\ UNCHANGED <<images_, parameters_, samples_>>
    /\ UNCHANGED trainer_vars

\* clear_samples()
ClearSamples ==
    /\ samples_' = << >>
    /\ call_log' = << >>
    /\ UNCHANGED <<images_, parameters_, image_map_>>
    /\ UNCHANGED trainer_vars

----------------------------------------------------------------------------
(* ImageFeature, ImageThreshold, ImageSplitPoint *)

\* A feature is <<offset_x1, offset_y1, offset_x2, offset_y2>>.  A threshold
\* is held in half units: the value 2 * t for the scalar t (-0.5 is -1).

compute_pixel_value_clamped(sample, offset_x, offset_y) ==
    LET image == images_[sample.image]
        Clamp(v, high) == IF v < 0 THEN 0 ELSE IF v > high THEN high ELSE v
    IN  image.data[<<Clamp(sample.x + offset_x, image.width - 1),
                     Clamp(sample.y + offset_y, image.height - 1)>>]

\* ImageFeature::compute_pixel_value / ImageSplitPoint::compute_pixel_value
compute_pixel_value(sample, offset_x, offset_y) ==
    LET image == images_[sample.image]
        x == sample.x
        y == sample.y
    IN  IF \/ x + offset_x < 0 \/ x + offset_x >= image.width
           \/ y + offset_y < 0 \/ y + offset_y >= image.height
        THEN 0
        ELSE image.data[<<x + offset_x, y + offset_y>>]

\* ImageFeature::compute_pixel_difference (a scalar_type)
compute_pixel_difference(feature, sample) ==
    compute_pixel_value(sample, feature[1], feature[2])
        - compute_pixel_value(sample, feature[3], feature[4])

\* ImageThreshold::left_direction
left_direction(threshold, value) == 2 * value < threshold

\* the conversion of a scalar_type difference to PixelT (std::int16_t) in
\* ImageSplitPoint::evaluate
ToPixelT(value) == ((value + 32768) % 65536) - 32768

\* what that conversion can give: the value itself when a PixelT holds it,
\* else (the conversion is undefined) the wrapped value or the nearest end
\* of the PixelT range
ConversionsToPixelT(value) ==
    IF value >= 0 - Int16Max - 1 /\ value <= Int16Max
    THEN { value }
    ELSE { ToPixelT(value), IF value < 0 THEN 0 - Int16Max - 1 ELSE Int16Max }

ImageSplitPoint(feature, threshold) == [ feature |-> feature, threshold |-> threshold ]

\* the split point of a node that was given none
NoSplitPoint == [ feature |-> << >>, threshold |-> 0 ]

\* ImageSplitPoint::evaluate(sample): TRUE for Direction::LEFT; a node that
\* was given no split point holds the default ImageSplitPoint(0, 0, 0, 0, 0),
\* whose difference 0 is not below its threshold 0
evaluate(split_point, sample) ==
    IF split_point = NoSplitPoint
    THEN FALSE
    ELSE LET pixel_difference ==
                 ToPixelT(compute_pixel_difference(split_point.feature, sample))
         IN  2 * pixel_difference < split_point.threshold

----------------------------------------------------------------------------
(* ImageSplitPointCandidates *)

\* candidates_ is a sequence of [feature, thresholds]

\* ImageSplitPointCandidates::total_size
total_size(candidates) ==
    LET RECURSIVE Sum(_)
        Sum(i) == IF i = 0 THEN 0 ELSE Sum(i - 1) + Len(candidates[i].thresholds)
    IN  Sum(Len(candidates))

\* the (feature, threshold) pairs in the order get_split_point walks them
RECURSIVE Flatten(_)
Flatten(candidates) ==
    IF candidates = << >>
    THEN << >>
    ELSE [ j \in 1..Len(Head(candidates).thresholds) |->
             ImageSplitPoint(Head(candidates).feature, Head(candidates).thresholds[j]) ]
         \o Flatten(Tail(candidates))

get_split_point_clamped(candidates, index) ==
    IF Flatten(candidates) = << >>
    THEN NoSplitPoint
    ELSE Flatten(candidates)[Min(index + 1, Len(Flatten(candidates)))]

\* ImageSplitPointCandidates::get_split_point(index), index from 0;
\* NoSplitPoint stands for the std::invalid_argument thrown
get_split_point(candidates, index) ==
    IF index + 1 \in DOMAIN Flatten(candidates)
    THEN Flatten(candidates)[index + 1]
    ELSE NoSplitPoint

----------------------------------------------------------------------------
(* Statistics *)

Labels == 0..2

\* create_statistics(): an empty label histogram
create_statistics ==
    [ histogram |-> [ l \in Labels |-> 0 ], num_of_samples |-> 0,
      lazy_finished |-> FALSE ]

\* accumulate(sample): the histogram and the count at once
accumulate(statistics, sample) ==
    [ statistics EXCEPT !.histogram[get_label(sample)] = @ + 1,
                        !.num_of_samples = @ + 1 ]

\* accumulate(first, last) over the samples behind a list of pointers
RECURSIVE accumulate_range(_, _)
accumulate_range(statistics, pointers) ==
    IF pointers = << >>
    THEN statistics
    ELSE accumulate_range(accumulate(statistics, samples_[Head(pointers)]), Tail(pointers))

\* lazy_accumulate(sample): the histogram only; the count is brought up to
\* date by finish_lazy_accumulation
lazy_accumulate(statistics, sample) ==
    [ statistics EXCEPT !.histogram[get_label(sample)] = @ + 1,
                        !.lazy_finished = FALSE ]

HistogramSum(histogram) ==
    LET RECURSIVE Sum(_)
        Sum(l) == IF l < 0 THEN 0 ELSE Sum(l - 1) + histogram[l]
    IN  Sum(2)

\* finish_lazy_accumulation()
finish_lazy_accumulation(statistics) ==
    [ statistics EXCEPT !.num_of_samples = HistogramSum(statistics.histogram),
                        !.lazy_finished = TRUE ]

\* n * log2(n) in millionths of a bit, for n = 0, 1, ...
XLogXTable == << 0, 0, 2000000, 4754888, 8000000, 11609640, 15509775,
                 19651484, 24000000, 28529325, 33219281, 38053748, 43019550 >>

XLogX(n) == XLogXTable[n + 1]

\* num_of_samples * entropy, in millionths of a bit
WeightedEntropy(statistics) ==
    XLogX(HistogramSum(statistics.histogram))
        - XLogX(statistics.histogram[0]) - XLogX(statistics.histogram[1])
        - XLogX(statistics.histogram[2])

\* the two histograms hold the labels in the same proportions
SameProportions(left, right) ==
    \A l \in Labels :
        left.histogram[l] * right.num_of_samples
            = right.histogram[l] * left.num_of_samples

\* the information gain of a candidate, in millionths of a bit: 0 when a
\* side is empty; exactly 0 when both sides hold the parent's proportions
compute_information_gain(parent, left, right) ==
    LET n == left.num_of_samples + right.num_of_samples
    IN  IF n = 0 \/ left.num_of_samples = 0 \/ right.num_of_samples = 0
        THEN 0
        ELSE IF SameProportions(left, right)
        THEN 0
        ELSE (WeightedEntropy(parent) - WeightedEntropy(left) - WeightedEntropy(right))
                \div n

----------------------------------------------------------------------------
(* SplitStatistics and the ImageWeakLearner *)

\* SplitStatistics(size): left and right statistics for indices 0..size-1
SplitStatistics(size) ==
    [ left  |-> [ k \in 0..(size - 1) |-> create_statistics ],
      right |-> [ k \in 0..(size - 1) |-> create_statistics ] ]

\* the inner loop of _compute_split_statistics over the thresholds from
\* position j, for one sample
RECURSIVE AccumulateThresholds(_, _, _, _, _, _)
AccumulateThresholds(split_statistics, sample, value, statistics_index, thresholds, j) ==
    IF j > Len(thresholds)
    THEN split_statistics
    ELSE AccumulateThresholds(
             IF left_direction(thresholds[j], value)
             THEN [ split_statistics EXCEPT
                      !.left[statistics_index] = lazy_accumulate(@, sample) ]
             ELSE [ split_statistics EXCEPT
                      !.right[statistics_index] = lazy_accumulate(@, sample) ],
             sample, value, statistics_index + 1, thresholds, j + 1)

\* the first loop of _compute_split_statistics, over the samples
RECURSIVE AccumulateSamples(_, _, _, _, _)
AccumulateSamples(split_statistics, pointers, statistics_index_offset, feature, thresholds) ==
    IF pointers = << >>
    THEN split_statistics
    ELSE AccumulateSamples(
             AccumulateThresholds(split_statistics, samples_[Head(pointers)],
                 compute_pixel_difference(feature, samples_[Head(pointers)]),
                 statistics_index_offset, thresholds, 1),
             Tail(pointers), statistics_index_offset, feature, thresholds)

\* the index the second loop of _compute_split_statistics finishes at its
\* j-th round (j from 0): statistics_index is set anew in every round
FinishIndex(statistics_index_offset, j) == statistics_index_offset

\* the second loop of _compute_split_statistics, one round per threshold
RECURSIVE FinishThresholds(_, _, _, _)
FinishThresholds(split_statistics, statistics_index_offset, thresholds, j) ==
    IF j >= Len(thresholds)
    THEN split_statistics
    ELSE LET k == FinishIndex(statistics_index_offset, j)
         IN  FinishThresholds(
                 [ split_statistics EXCEPT
                     !.left[k]  = finish_lazy_accumulation(@),
                     !.right[k] = finish_lazy_accumulation(@) ],
                 statistics_index_offset, thresholds, j + 1)

\* ImageWeakLearner::_compute_split_statistics
compute_split_statistics_of_feature(pointers, split_statistics, offset, feature, thresholds) ==
    FinishThresholds(
        AccumulateSamples(split_statistics, pointers, offset, feature, thresholds),
        offset, thresholds, 0)

\* statistics_index_offset of compute_split_statistics for the candidate at
\* position i (from 1): its distance from cbegin() times the length of its
\* own threshold list
statistics_index_offset_of(split_points, i) ==
    (i - 1) * Len(split_points[i].thresholds)

\* the loop of compute_split_statistics over the candidates from position i
RECURSIVE SplitStatisticsLoop(_, _, _, _)
SplitStatisticsLoop(pointers, split_points, split_statistics, i) ==
    IF i > Len(split_points)
    THEN split_statistics
    ELSE SplitStatisticsLoop(pointers, split_points,
             compute_split_statistics_of_feature(pointers, split_statistics,
                 statistics_index_offset_of(split_points, i),
                 split_points[i].feature, split_points[i].thresholds),
             i + 1)

\* ImageWeakLearner::compute_split_statistics
compute_split_statistics(pointers, split_points) ==
    SplitStatisticsLoop(pointers, split_points,
                        SplitStatistics(total_size(split_points)), 1)

\* the offsets sample_split_points draws from: -o and +o for o in [low, high]
RECURSIVE OffsetPool(_, _)
OffsetPool(low, high) ==
    IF low > high THEN << >> ELSE <<0 - low, low>> \o OffsetPool(low + 1, high)

offsets_x ==
    OffsetPool(learner_parameters_.feature_offset_x_range_low,
               learner_parameters_.feature_offset_x_range_high)

offsets_y ==
    OffsetPool(learner_parameters_.feature_offset_y_range_low,
               learner_parameters_.feature_offset_y_range_high)

\* the features one round of the loop of sample_split_points can draw
FeatureDraws == Range(offsets_x) \X Range(offsets_y) \X Range(offsets_x) \X Range(offsets_y)

\* the thresholds sample_split_points gives a feature of binary images
BinaryThresholds == << -1, 1 >>

\* std::numeric_limits<scalar_type>::max(), in half units: a value above
\* every pixel difference
ScalarMax == 262144

\* std::numeric_limits<scalar_type>::min() of the floating scalar_type: the
\* smallest positive normal value. In half units it and every value between
\* 0 and it are held as 1, which compares with every pixel difference as
\* they do
ScalarMin == 1

\* the loop of compute_adaptive_threshold_range over the samples: the pair
\* <<min_value, max_value>> in half units
RECURSIVE AdaptiveRangeLoop(_, _, _, _)
AdaptiveRangeLoop(pointers, feature, min_value, max_value) ==
    IF pointers = << >>
    THEN <<min_value, max_value>>
    ELSE LET value == 2 * compute_pixel_difference(feature, samples_[Head(pointers)])
         IN  AdaptiveRangeLoop(Tail(pointers), feature,
                 IF value < min_value THEN value ELSE min_value,
                 IF value > max_value THEN value ELSE max_value)

\* ImageWeakLearner::compute_adaptive_threshold_range: <<threshold_range_low,
\* threshold_range_high>> in half units
compute_adaptive_threshold_range(pointers, feature) ==
    LET range == AdaptiveRangeLoop(pointers, feature, ScalarMax, ScalarMin)
    IN  IF range[1] >= range[2] THEN <<0, 0>> ELSE range

\* the range sample_split_points draws the thresholds of a feature from, in
\* half units; the threshold parameters are read for non-binary images only
threshold_range(pointers, feature) ==
    IF learner_parameters_.adaptive_threshold_range
    THEN compute_adaptive_threshold_range(pointers, feature)
    ELSE <<2 * learner_parameters_.threshold_range_low,
           2 * learner_parameters_.threshold_range_high>>

\* std::uniform_real_distribution<scalar_type>(low, high): the values of
\* [low, high) the model follows, the ends of the range and 0; low alone
\* when the range is empty
uniform_real_distribution(low, high) ==
    IF low >= high
    THEN {low}
    ELSE { t \in {low, 0, high - 1, high} :
             /\ low <= t
             /\ t < high \/ (t = high /\ high = ScalarMin) }

\* the threshold lists the inner loop of sample_split_points can draw for a
\* feature
ThresholdDraws(pointers, feature) ==
    IF learner_parameters_.binary_images
    THEN { << >> }
    ELSE LET range == threshold_range(pointers, feature)
         IN  [ 1..learner_parameters_.num_of_thresholds ->
                   uniform_real_distribution(range[1], range[2]) ]

\* the threshold lists sample_split_points can draw for the features drawn
SplitPointDraws(pointers, features) ==
    { threshold_draws \in [ 1..Len(features) ->
                              UNION { ThresholdDraws(pointers, features[i_f]) :
                                          i_f \in 1..Len(features) } ] :
          \A i_f \in 1..Len(features) :
              threshold_draws[i_f] \in ThresholdDraws(pointers, features[i_f]) }

\* nothing is drawn for the thresholds of binary images
NoThresholdDraws(features) == [ i_f \in 1..Len(features) |-> << >> ]

sample_thresholds_by_count(threshold_draws) ==
    IF learner_parameters_.binary_images /\ learner_parameters_.num_of_thresholds >= 2
    THEN BinaryThresholds
    ELSE threshold_draws

\* the thresholds sample_split_points gives a feature
sample_thresholds(threshold_draws) ==
    IF learner_parameters_.binary_images
    THEN BinaryThresholds
    ELSE threshold_draws

\* ImageWeakLearner::sample_split_points over the samples behind pointers,
\* for the features and the thresholds drawn
sample_split_points(pointers, features, threshold_draws) ==
    [ i_f \in 1..Len(features) |->
        [ feature |-> features[i_f],
          thresholds |-> sample_thresholds(threshold_draws[i_f]) ] ]

\* WeakLearner::find_best_split_point_tuple: the first candidate of the
\* largest information gain, as <<index, gain>>
find_best_split_point_tuple(current_statistics, split_statistics) ==
    LET size == Cardinality(DOMAIN split_statistics.left)
        gain(k) == compute_information_gain(current_statistics,
                       split_statistics.left[k], split_statistics.right[k])
        best == CHOOSE k \in 0..(size - 1) :
                    /\ \A j \in 0..(size - 1) : gain(j) <= gain(k)
                    /\ \A j \in 0..(k - 1) : gain(j) < gain(k)
    IN  <<best, gain(best)>>

----------------------------------------------------------------------------
(* ImageWeakLearner::compute_split_statistics_parallel *)

MaxThreads == 3

NoParallelCall == [ pc |-> "idle" ]

\* std::thread::hardware_concurrency(): 0 when the value is not computable
HardwareConcurrency == { 0, 2 }

\* the sample range of the call: the whole sample list
SampleRange == [ i \in 1..Len(samples_) |-> i ]

split_point_index_from_0(thread_index, size, num_of_threads) == 0

\* split_point_index_begin of a thread
split_point_index_begin(thread_index, size, num_of_threads) ==
    (thread_index * size) \div num_of_threads

split_point_index_end_short(thread_index, size, num_of_threads) ==
    Min((thread_index * size) \div num_of_threads + 1, size)

\* split_point_index_end of a thread
split_point_index_end(thread_index, size, num_of_threads) ==
    ((thread_index + 1) * size) \div num_of_threads

\* the statistics slots one _compute_split_statistics call writes
SlotsWritten(statistics_index_offset, thresholds) ==
    statistics_index_offset..(statistics_index_offset + Len(thresholds) - 1)

\* compute_split_statistics_parallel up to the start of its threads;
\* hardware_concurrency is what std::thread::hardware_concurrency() returns
\* if it is asked
CallParallel(features, num_of_threads, hardware_concurrency) ==
    LET split_points == sample_split_points(SampleRange, features, NoThresholdDraws(features))
        n == IF num_of_threads <= 0 THEN hardware_concurrency ELSE num_of_threads
    IN  /\ parallel_call.pc = "idle"
        /\ pc = "idle"
        /\ parallel_call' =
               [ pc |-> "threads",
                 num_of_threads |-> num_of_threads,
                 split_points |-> split_points,
                 split_statistics |-> SplitStatistics(total_size(split_points)),
                 begin |-> [ t \in 0..(n - 1) |->
                               split_point_index_begin(t, Len(split_points), n) ],
                 next |-> [ t \in 0..(n - 1) |->
                              split_point_index_begin(t, Len(split_points), n) ],
                 end  |-> [ t \in 0..(n - 1) |->
                              split_point_index_end(t, Len(split_points), n) ],
                 writers |-> [ k \in 0..(total_size(split_points) - 1) |-> {} ] ]
        /\ UNCHANGED <<learner_parameters_, training_parameters_, pc, forest,
                       tree_index, tree, current_level, node_to_sample_map, node_it,
                       part, bagging, rnd_engine, learner_call, checkpoints>>
        /\ UNCHANGED provider_vars

\* one round of the loop of a thread's lambda: _compute_split_statistics on
\* the candidate at split_point_index
ThreadStep(thread_index) ==
    /\ parallel_call.pc = "threads"
    /\ thread_index \in DOMAIN parallel_call.next
    /\ parallel_call.next[thread_index] < parallel_call.end[thread_index]
    /\ LET split_point_index == parallel_call.next[thread_index]
           candidate == parallel_call.split_points[split_point_index + 1]
           statistics_index_offset == split_point_index * Len(candidate.thresholds)
       IN  parallel_call' =
               [ parallel_call EXCEPT
                   !.split_statistics =
                       compute_split_statistics_of_feature(SampleRange, @,
                           statistics_index_offset, candidate.feature,
                           candidate.thresholds),
                   !.writers =
                       [ k \in DOMAIN @ |->
                           IF k \in SlotsWritten(statistics_index_offset,
                                                 candidate.thresholds)
                           THEN @[k] \cup {thread_index} ELSE @[k] ],
                   !.next[thread_index] = @ + 1 ]
    /\ UNCHANGED <<learner_parameters_, training_parameters_, pc, forest,
                   tree_index, tree, current_level, node_to_sample_map, node_it,
                   part, bagging, rnd_engine, learner_call, checkpoints>>
    /\ UNCHANGED provider_vars

JoinFirstThread ==
    /\ parallel_call.pc = "threads"
    /\ \A t \in DOMAIN parallel_call.next :
          t = 0 => parallel_call.next[t] >= parallel_call.end[t]
    /\ parallel_call' = [ parallel_call EXCEPT !.pc = "returned" ]
    /\ UNCHANGED <<learner_parameters_, training_parameters_, pc, forest,
                   tree_index, tree, current_level, node_to_sample_map, node_it,
                   part, bagging, rnd_engine, learner_call, checkpoints>>
    /\ UNCHANGED provider_vars

\* every thread is joined and split_statistics is returned
JoinThreads ==
    /\ parallel_call.pc = "threads"
    /\ \A t \in DOMAIN parallel_call.next : parallel_call.next[t] >= parallel_call.end[t]
    /\ parallel_call' = [ parallel_call EXCEPT !.pc = "returned" ]
    /\ UNCHANGED <<learner_parameters_, training_parameters_, pc, forest,
                   tree_index, tree, current_level, node_to_sample_map, node_it,
                   part, bagging, rnd_engine, learner_call, checkpoints>>
    /\ UNCHANGED provider_vars

----------------------------------------------------------------------------
(* Tree *)

RECURSIVE Pow2(_)
Pow2(n) == IF n = 0 THEN 1 ELSE 2 * Pow2(n - 1)

\* the nodes of a tree of the given depth, in heap order from the root 0
NodeIndices(depth) == 0..(Pow2(depth + 1) - 2)

\* TreeLevel(tree, level): the first node of a level, and the one past its
\* last; the root is the only node of level 1
level_begin(level) == Pow2(level - 1) - 1
level_end(level) == Pow2(level) - 1

left_child(node) == 2 * node + 1
right_child(node) == 2 * node + 2

Node == [ leaf |-> FALSE, split_point |-> NoSplitPoint, statistics |-> create_statistics ]

\* Tree(depth)
Tree(depth) == [ n \in NodeIndices(depth) |-> Node ]

\* Tree::evaluate(sample): down from the root to the first leaf
RECURSIVE tree_evaluate(_, _, _)
tree_evaluate(t, node, sample) ==
    IF t[node].leaf \/ left_child(node) \notin DOMAIN t
    THEN node
    ELSE IF evaluate(t[node].split_point, sample)
         THEN tree_evaluate(t, left_child(node), sample)
         ELSE tree_evaluate(t, right_child(node), sample)

----------------------------------------------------------------------------
(* LevelForestTrainer *)

get_sample_node_map_past_earlier_trees(t, node_iter_start, node_iter_end) ==
    [ n \in node_iter_start..(node_iter_end - 1) |->
        SelectSeq([ i \in 1..Len(samples_) |-> i ],
                  LAMBDA i : i > tree_index /\ tree_evaluate(t, 0, samples_[i]) = n) ]

get_sample_node_map_reached_nodes_only(t, node_iter_start, node_iter_end) ==
    [ n \in { m \in node_iter_start..(node_iter_end - 1) :
                \E i \in 1..Len(samples_) : tree_evaluate(t, 0, samples_[i]) = m } |->
        SelectSeq([ i \in 1..Len(samples_) |-> i ],
                  LAMBDA i : tree_evaluate(t, 0, samples_[i]) = n) ]

\* get_sample_node_map(tree, node_iter_start, node_iter_end, samples): a
\* bucket for every node of the range, and every sample whose evaluation
\* ends at a node with a bucket pushed on it, in the order of the samples
get_sample_node_map(t, node_iter_start, node_iter_end) ==
    [ n \in node_iter_start..(node_iter_end - 1) |->
        SelectSeq([ i \in 1..Len(samples_) |-> i ],
                  LAMBDA i : tree_evaluate(t, 0, samples_[i]) = n) ]

\* get_sample_node_map_part
get_sample_node_map_part(map, node_iter_start, node_iter_end) ==
    [ n \in node_iter_start..(node_iter_end - 1) |-> map[n] ]

\* compute_statistics_batch
compute_statistics_batch(map) ==
    [ n \in DOMAIN map |-> accumulate_range(create_statistics, map[n]) ]

update_node_statistics_batch_whole_tree(t, statistics_batch) ==
    [ n \in DOMAIN t |->
        IF n \in DOMAIN statistics_batch
        THEN [ t[n] EXCEPT !.statistics = statistics_batch[n] ]
        ELSE [ t[n] EXCEPT !.statistics = create_statistics ] ]

\* update_node_statistics_batch
update_node_statistics_batch(t, statistics_batch) ==
    [ n \in DOMAIN t |->
        IF n \in DOMAIN statistics_batch
        THEN [ t[n] EXCEPT !.statistics = statistics_batch[n] ]
        ELSE t[n] ]

\* sample_split_points_batch, for the features drawn at each node
sample_split_points_batch(map, features) ==
    [ n \in DOMAIN map |->
        sample_split_points(map[n], features[n], NoThresholdDraws(features[n])) ]

\* compute_split_statistics_batch (num_of_threads = 1)
compute_split_statistics_batch(map, split_points_batch) ==
    [ n \in DOMAIN map |-> compute_split_statistics(map[n], split_points_batch[n]) ]

\* find_best_split_point_batch: per node the best split point and its
\* SplitInformation
find_best_split_point_batch(split_points_batch, current_statistics, split_statistics_batch) ==
    [ n \in DOMAIN split_statistics_batch |->
        LET best == find_best_split_point_tuple(current_statistics[n], split_statistics_batch[n])
        IN  [ split_point          |-> get_split_point(split_points_batch[n], best[1]),
              index                |-> best[1],
              information_gain     |-> best[2],
              total_num_of_samples |-> current_statistics[n].num_of_samples,
              left_num_of_samples  |->
                  split_statistics_batch[n].left[best[1]].num_of_samples,
              right_num_of_samples |->
                  split_statistics_batch[n].right[best[1]].num_of_samples ] ]

MakesLeafConjoined(split_information) ==
    /\ split_information.information_gain < training_parameters_.minimum_information_gain
    /\ split_information.total_num_of_samples < training_parameters_.minimum_num_of_samples

MakesLeafByGainOnly(split_information) ==
    split_information.information_gain < training_parameters_.minimum_information_gain

\* the test of train_tree_level_part that makes a node a leaf
MakesLeaf(split_information) ==
    \/ split_information.information_gain < training_parameters_.minimum_information_gain
    \/ split_information.total_num_of_samples < training_parameters_.minimum_num_of_samples

ApplySplitsKeepingChildren(t, best_split_point_batch) ==
    [ n \in DOMAIN t |->
        IF n \in DOMAIN best_split_point_batch
        THEN [ t[n] EXCEPT !.split_point = best_split_point_batch[n].split_point,
                           !.leaf = MakesLeaf(best_split_point_batch[n]) ]
        ELSE t[n] ]

ApplySplitsMarkingParents(t, best_split_point_batch) ==
    [ n \in DOMAIN t |->
        IF n \in DOMAIN best_split_point_batch
        THEN [ t[n] EXCEPT !.split_point = best_split_point_batch[n].split_point,
                           !.leaf = MakesLeaf(best_split_point_batch[n]) ]
        ELSE IF \E m \in DOMAIN best_split_point_batch :
                    \/ n \in { left_child(m), right_child(m) }
                    \/ m \in { left_child(n), right_child(n) }
        THEN [ t[n] EXCEPT !.leaf = TRUE ]
        ELSE t[n] ]

\* the loop of train_tree_level_part over best_split_point_batch
ApplySplits(t, best_split_point_batch) ==
    [ n \in DOMAIN t |->
        IF n \in DOMAIN best_split_point_batch
        THEN [ t[n] EXCEPT !.split_point = best_split_point_batch[n].split_point,
                           !.leaf = MakesLeaf(best_split_point_batch[n]) ]
        ELSE IF \E m \in DOMAIN best_split_point_batch :
                    n \in { left_child(m), right_child(m) }
        THEN [ t[n] EXCEPT !.leaf = TRUE ]
        ELSE t[n] ]

SplitsAtLastLevel(level) == level <= training_parameters_.tree_depth

\* the test of train_tree_level_part that lets a level split its nodes
SplitsAtLevel(level) == level < training_parameters_.tree_depth

NoPart == [ level |-> 0, nodes |-> {} ]

train_tree_level_part_statistics_when_splitting(t, map_part, level, features) ==
    LET current_statistics == compute_statistics_batch(map_part)
        t1 == update_node_statistics_batch(t, current_statistics)
        split_points_batch == sample_split_points_batch(map_part, features)
        split_statistics_batch == compute_split_statistics_batch(map_part, split_points_batch)
        best_split_point_batch ==
            find_best_split_point_batch(split_points_batch, current_statistics,
                                        split_statistics_batch)
    IN  IF SplitsAtLevel(level)
        THEN [ tree |-> ApplySplits(t1, best_split_point_batch),
               part |-> [ level |-> level, nodes |-> DOMAIN map_part,
                          split |-> TRUE,
                          current_statistics |-> current_statistics,
                          split_points_batch |-> split_points_batch,
                          split_statistics_batch |-> split_statistics_batch,
                          best_split_point_batch |-> best_split_point_batch ] ]
        ELSE [ tree |-> t,
               part |-> [ level |-> level, nodes |-> DOMAIN map_part,
                          split |-> FALSE,
                          current_statistics |-> current_statistics ] ]

\* train_tree_level_part: the tree it leaves and the maps it built
train_tree_level_part(t, map_part, level, features) ==
    LET current_statistics == compute_statistics_batch(map_part)
        t1 == update_node_statistics_batch(t, current_statistics)
        split_points_batch == sample_split_points_batch(map_part, features)
        split_statistics_batch == compute_split_statistics_batch(map_part, split_points_batch)
        best_split_point_batch ==
            find_best_split_point_batch(split_points_batch, current_statistics,
                                        split_statistics_batch)
    IN  IF SplitsAtLevel(level)
        THEN [ tree |-> ApplySplits(t1, best_split_point_batch),
               part |-> [ level |-> level, nodes |-> DOMAIN map_part,
                          split |-> TRUE,
                          current_statistics |-> current_statistics,
                          split_points_batch |-> split_points_batch,
                          split_statistics_batch |-> split_statistics_batch,
                          best_split_point_batch |-> best_split_point_batch ] ]
        ELSE [ tree |-> t1,
               part |-> [ level |-> level, nodes |-> DOMAIN map_part,
                          split |-> FALSE,
                          current_statistics |-> current_statistics ] ]

\* a node map without the entries of the other nodes
Restrict(map, nodes) == [ n \in DOMAIN map \cap nodes |-> map[n] ]

\* a position inside train_tree_level_part: the tree as it stands and the
\* maps built so far
PartPosition(t, split_points_batch, split_statistics_batch, best_split_point_batch) ==
    [ tree                   |-> t,
      split_points_batch     |-> split_points_batch,
      split_statistics_batch |-> split_statistics_batch,
      best_split_point_batch |-> best_split_point_batch ]

train_tree_level_part_steps_node_by_node(t, map_part, level, features) ==
    LET current_statistics == compute_statistics_batch(map_part)
        t1 == update_node_statistics_batch(t, current_statistics)
        split_points_batch == sample_split_points_batch(map_part, features)
        split_statistics_batch == compute_split_statistics_batch(map_part, split_points_batch)
        best_split_point_batch ==
            find_best_split_point_batch(split_points_batch, current_statistics,
                                        split_statistics_batch)
        first == CHOOSE n \in DOMAIN map_part : \A m \in DOMAIN map_part : n <= m
        upto(k) == { m \in DOMAIN map_part : m < first + k }
        written(k) == ApplySplits(t1, Restrict(best_split_point_batch, upto(k)))
    IN  <<PartPosition(t1, << >>, << >>, << >>)>>
        \o ( IF SplitsAtLevel(level)
             THEN [ j \in 1..(2 * Cardinality(DOMAIN map_part)) |->
                      LET k == (j + 1) \div 2
                      IN  PartPosition(IF j % 2 = 1 THEN written(k - 1) ELSE written(k),
                                       Restrict(split_points_batch, upto(k)),
                                       Restrict(split_statistics_batch, upto(k)),
                                       Restrict(best_split_point_batch, upto(k))) ]
             ELSE << >> )

\* train_tree_level_part, position by position: after the statistics of the
\* nodes are written (line 468), after sample_split_points_batch (471),
\* compute_split_statistics_batch (472) and find_best_split_point_batch
\* (473), and after each round of the loop over best_split_point_batch
\* (474-490), which runs over the nodes in the order of the map
train_tree_level_part_steps(t, map_part, level, features) ==
    LET current_statistics == compute_statistics_batch(map_part)
        t1 == update_node_statistics_batch(t, current_statistics)
        split_points_batch == sample_split_points_batch(map_part, features)
        split_statistics_batch == compute_split_statistics_batch(map_part, split_points_batch)
        best_split_point_batch ==
            find_best_split_point_batch(split_points_batch, current_statistics,
                                        split_statistics_batch)
        first == CHOOSE n \in DOMAIN map_part : \A m \in DOMAIN map_part : n <= m
        upto(k) == { m \in DOMAIN map_part : m < first + k }
        written(k) == ApplySplits(t1, Restrict(best_split_point_batch, upto(k)))
    IN  <<PartPosition(t1, << >>, << >>, << >>)>>
        \o ( IF SplitsAtLevel(level)
             THEN <<PartPosition(t1, split_points_batch, << >>, << >>),
                    PartPosition(t1, split_points_batch, split_statistics_batch, << >>),
                    PartPosition(t1, split_points_batch, split_statistics_batch,
                                 best_split_point_batch)>>
                  \o [ k \in 1..Cardinality(DOMAIN map_part) |->
                         PartPosition(written(k), split_points_batch,
                                      split_statistics_batch, best_split_point_batch) ]
             ELSE << >> )

node_it_next_whole_level == level_end(current_level)

\* the end of the part train_tree_level starts at node_it
node_it_next ==
    IF training_parameters_.level_part_size > 0
    THEN Min(node_it + training_parameters_.level_part_size, level_end(current_level))
    ELSE level_end(current_level)

\* the features the sample_split_points calls of a part can draw, one
\* sequence of num_of_features features per node
PartFeatureDraws(nodes) ==
    IF SplitsAtLevel(current_level)
    THEN [ nodes -> [ 1..learner_parameters_.num_of_features -> FeatureDraws ] ]
    ELSE { [ n \in nodes |-> << >> ] }

\* the features sample_split_points_batch draws for the nodes of a part: the
\* nodes in the order of the map, num_of_features draws at each
drawn_features(features, node_iter_start, node_iter_end) ==
    IF SplitsAtLevel(current_level)
    THEN [ j \in 1..((node_iter_end - node_iter_start) * learner_parameters_.num_of_features) |->
             features[node_iter_start + (j - 1) \div learner_parameters_.num_of_features]
                     [((j - 1) % learner_parameters_.num_of_features) + 1] ]
    ELSE << >>

StartTreeRootNotLeaf ==
    /\ pc = "train_forest"
    /\ tree_index < training_parameters_.num_of_trees
    /\ tree' = Tree(training_parameters_.tree_depth)
    /\ current_level' = 1
    /\ bagging' = [ bagging EXCEPT !.tree_draw = Append(@, bagging.draws) ]
    /\ pc' = "train_tree"
    /\ rnd_engine' = << >>
    /\ UNCHANGED <<forest, tree_index, node_to_sample_map, node_it, part>>
    /\ UNCHANGED <<learner_parameters_, training_parameters_, parallel_call, learner_call,
                   checkpoints>>
    /\ UNCHANGED provider_vars

\* train_forest: the head of the loop over the trees, and the start of
\* train_tree (a new tree whose root is a leaf)
StartTree ==
    /\ pc = "train_forest"
    /\ tree_index < training_parameters_.num_of_trees
    /\ tree' = [ Tree(training_parameters_.tree_depth) EXCEPT ![0].leaf = TRUE ]
    /\ current_level' = 1
    /\ bagging' = [ bagging EXCEPT !.tree_draw = Append(@, bagging.draws) ]
    /\ pc' = "train_tree"
    /\ rnd_engine' = << >>
    /\ UNCHANGED <<forest, tree_index, node_to_sample_map, node_it, part>>
    /\ UNCHANGED <<learner_parameters_, training_parameters_, parallel_call, learner_call,
                   checkpoints>>
    /\ UNCHANGED provider_vars

\* train_tree_level up to its loop: the samples are routed to the nodes of
\* the level
BeginLevel ==
    /\ pc = "train_tree"
    /\ current_level <= training_parameters_.tree_depth
    /\ node_to_sample_map' =
           get_sample_node_map(tree, level_begin(current_level), level_end(current_level))
    /\ node_it' = level_begin(current_level)
    /\ pc' = "train_tree_level"
    /\ UNCHANGED <<forest, tree_index, tree, current_level, part, bagging>>
    /\ UNCHANGED <<learner_parameters_, training_parameters_, parallel_call, rnd_engine,
                   learner_call, checkpoints>>
    /\ UNCHANGED provider_vars

\* one round of the loop of train_tree_level: train_tree_level_part on the
\* nodes from node_it
LevelPart(features) ==
    /\ pc = "train_tree_level"
    /\ node_it < level_end(current_level)
    /\ LET r == train_tree_level_part(tree,
                    get_sample_node_map_part(node_to_sample_map, node_it, node_it_next),
                    current_level, features)
       IN  /\ tree' = r.tree
           /\ part' = r.part
    /\ node_it' = node_it_next
    /\ rnd_engine' = rnd_engine \o drawn_features(features, node_it, node_it_next)
    /\ UNCHANGED <<forest, tree_index, current_level, node_to_sample_map, pc, bagging>>
    /\ UNCHANGED <<learner_parameters_, training_parameters_, parallel_call, learner_call,
                   checkpoints>>
    /\ UNCHANGED provider_vars

\* train_tree_level_part is entered on the nodes from node_it, and
\* compute_statistics_batch and update_node_statistics_batch have run; at the
\* last level the call returns here
EnterLevelPart(features) ==
    /\ pc = "train_tree_level"
    /\ node_it < level_end(current_level)
    /\ LET steps == train_tree_level_part_steps(tree,
                        get_sample_node_map_part(node_to_sample_map, node_it, node_it_next),
                        current_level, features)
       IN  /\ part' = [ level |-> current_level, nodes |-> node_it..(node_it_next - 1),
                        features |-> features, steps |-> steps, at |-> 1 ]
           /\ tree' = steps[1].tree
           /\ IF Len(steps) = 1
              THEN /\ pc' = "train_tree_level"
                   /\ node_it' = node_it_next
              ELSE /\ pc' = "train_tree_level_part"
                   /\ node_it' = node_it
    /\ UNCHANGED <<forest, tree_index, current_level, node_to_sample_map, bagging>>
    /\ UNCHANGED <<learner_parameters_, training_parameters_, parallel_call, rnd_engine,
                   learner_call, checkpoints>>
    /\ UNCHANGED provider_vars

\* train_tree_level_part moves to its next position; after the last round of
\* its loop it returns and train_tree_level moves node_it to the next part
LevelPartStep ==
    /\ pc = "train_tree_level_part"
    /\ part.at < Len(part.steps)
    /\ part' = [ part EXCEPT !.at = @ + 1 ]
    /\ tree' = part.steps[part.at + 1].tree
    /\ rnd_engine' = IF part.at = 1
                     THEN rnd_engine \o drawn_features(part.features, node_it, node_it_next)
                     ELSE rnd_engine
    /\ IF part.at + 1 = Len(part.steps)
       THEN /\ pc' = "train_tree_level"
            /\ node_it' = node_it_next
       ELSE /\ pc' = pc
            /\ node_it' = node_it
    /\ UNCHANGED <<forest, tree_index, current_level, node_to_sample_map, bagging>>
    /\ UNCHANGED <<learner_parameters_, training_parameters_, parallel_call, learner_call,
                   checkpoints>>
    /\ UNCHANGED provider_vars

\* what one checkpoint write can do: write the file; fail and return; fail
\* and throw
WriteOutcomes == { "written", "failed", "throws" }

\* std::ofstream and cereal::JSONOutputArchive on a file that cannot be
\* written: the stream turns bad, nothing is thrown
JsonForestWriteOutcomes == { "written", "failed" }

\* one checkpoint write: what is written (a tree or the forest), the format,
\* the file name as <<prefix, suffix>>, and the outcome
Checkpoint(of, format, prefix, suffix, outcome) ==
    [ of |-> of, format |-> format, file |-> <<prefix, suffix>>, outcome |-> outcome ]

\* the writes made up to the first one that throws
RECURSIVE UpToThrow(_)
UpToThrow(writes) ==
    IF writes = << >>
    THEN << >>
    ELSE IF Head(writes).outcome = "throws"
         THEN <<Head(writes)>>
         ELSE <<Head(writes)>> \o UpToThrow(Tail(writes))

\* an exception of a write leaves train_tree and train_forest, which catch
\* nothing
Throws(writes) == \E w \in DOMAIN writes : writes[w].outcome = "throws"

\* the checkpoint of train_tree after a level: both writes are guarded by
\* and named from temporary_json_tree_file_prefix
tree_checkpoints(level, json_outcome, binary_outcome) ==
    UpToThrow(
        ( IF training_parameters_.temporary_json_tree_file_prefix # ""
          THEN <<Checkpoint("tree", "json",
                     training_parameters_.temporary_json_tree_file_prefix,
                     level, json_outcome)>>
          ELSE << >> )
        \o
        ( IF training_parameters_.temporary_json_tree_file_prefix # ""
          THEN <<Checkpoint("tree", "binary",
                     training_parameters_.temporary_json_tree_file_prefix,
                     level, binary_outcome)>>
          ELSE << >> ))

\* the checkpoint of train_forest after tree i: the binary file is named
\* from temporary_json_forest_file_prefix
forest_checkpoints(i, json_outcome, binary_outcome) ==
    UpToThrow(
        ( IF training_parameters_.temporary_json_forest_file_prefix # ""
          THEN <<Checkpoint("forest", "json",
                     training_parameters_.temporary_json_forest_file_prefix,
                     i, json_outcome)>>
          ELSE << >> )
        \o
        ( IF training_parameters_.temporary_binary_forest_file_prefix # ""
          THEN <<Checkpoint("forest", "binary",
                     training_parameters_.temporary_json_forest_file_prefix,
                     i, binary_outcome)>>
          ELSE << >> ))

\* the end of train_tree_level, the checkpoint of the level and the step of
\* the loop of train_tree
EndLevel(json_outcome, binary_outcome) ==
    /\ pc = "train_tree_level"
    /\ node_it >= level_end(current_level)
    /\ LET writes == tree_checkpoints(current_level, json_outcome, binary_outcome)
       IN  /\ checkpoints' = checkpoints \o writes
           /\ IF Throws(writes)
              THEN /\ pc' = "aborted"
                   /\ current_level' = current_level
              ELSE /\ pc' = "train_tree"
                   /\ current_level' = current_level + 1
    /\ UNCHANGED <<forest, tree_index, tree, node_to_sample_map, node_it, part, bagging>>
    /\ UNCHANGED <<learner_parameters_, training_parameters_, parallel_call, rnd_engine,
                   learner_call>>
    /\ UNCHANGED provider_vars

\* train_tree returns, train_forest adds the tree and writes the checkpoint
\* of the forest
AddTree(json_outcome, binary_outcome) ==
    /\ pc = "train_tree"
    /\ current_level > training_parameters_.tree_depth
    /\ forest' = Append(forest, tree)
    /\ bagging' = [ bagging EXCEPT !.tree_engine = Append(@, rnd_engine) ]
    /\ LET writes == forest_checkpoints(tree_index, json_outcome, binary_outcome)
       IN  /\ checkpoints' = checkpoints \o writes
           /\ IF Throws(writes)
              THEN /\ pc' = "aborted"
                   /\ tree_index' = tree_index
              ELSE /\ pc' = "train_forest"
                   /\ tree_index' = tree_index + 1
    /\ UNCHANGED <<tree, current_level, node_to_sample_map, node_it, part>>
    /\ UNCHANGED <<learner_parameters_, training_parameters_, parallel_call, rnd_engine,
                   learner_call>>
    /\ UNCHANGED provider_vars

\* train_forest returns the forest
ReturnForest ==
    /\ pc = "train_forest"
    /\ tree_index >= training_parameters_.num_of_trees
    /\ pc' = "done"
    /\ UNCHANGED <<forest, tree_index, tree, current_level, node_to_sample_map,
                   node_it, part, bagging>>
    /\ UNCHANGED <<learner_parameters_, training_parameters_, parallel_call, rnd_engine,
                   learner_call, checkpoints>>
    /\ UNCHANGED provider_vars

----------------------------------------------------------------------------
(* The parameters of the runs *)

MaxTrees == 2
MaxDepth == 3
MaxFeatureDraws == 3
MaxBags == 1

\* TrainingParameters: the defaults of training.h
DefaultMinimumNumOfSamples == 100
DefaultMinimumInformationGain == 0

\* the information gains are in millionths of a bit
TrainingParameterSets ==
    [ num_of_trees             : 1..MaxTrees,
      tree_depth               : 1..MaxDepth,
      minimum_num_of_samples   : { 2, DefaultMinimumNumOfSamples },
      minimum_information_gain : { DefaultMinimumInformationGain, 500000 },
      level_part_size          : { 0, 1, 3 },
      temporary_json_tree_file_prefix     : { "" },
      temporary_binary_tree_file_prefix   : { "" },
      temporary_json_forest_file_prefix   : { "" },
      temporary_binary_forest_file_prefix : { "" } ]

LearnerParameterSets ==
    [ num_of_features            : { 1, 2 },
      feature_offset_x_range_low : { 0, 1 },
      feature_offset_x_range_high: { 0, 1 },
      feature_offset_y_range_low : { 0 },
      feature_offset_y_range_high: { 0 },
      binary_images              : { TRUE } ]

\* the sample_split_points draws of one train_forest run
NumOfFeatureDraws(tp, lp) ==
    tp.num_of_trees * (Pow2(tp.tree_depth - 1) - 1) * lp.num_of_features

\* the sample provider the training runs draw their bag from
TrainingProviderParameters ==
    { p \in ProviderParameters :
        /\ p.samples_per_image_fraction = <<1, 1>>
        /\ p.background_label = Int16Max }

NoLearnerCall == [ call |-> "none" ]

NoBagging == [ draws |-> 0, tree_draw |-> << >>, tree_engine |-> << >> ]

\* the trainer before train_forest is called
TrainerIdle ==
    /\ pc = "idle"
    /\ forest = << >>
    /\ tree_index = 0
    /\ tree = << >>
    /\ current_level = 0
    /\ node_to_sample_map = << >>
    /\ node_it = 0
    /\ part = NoPart
    /\ bagging = NoBagging
    /\ parallel_call = NoParallelCall
    /\ rnd_engine = << >>
    /\ learner_call = NoLearnerCall
    /\ checkpoints = << >>

\* the caller's load_sample_bag, which fills the sample range it hands to
\* train_forest
DrawBag(image_draws, appended) ==
    /\ pc = "idle"
    /\ bagging.draws < MaxBags
    /\ load_sample_batch(compute_sample_bag_batches(1, image_draws)[1], appended)
    /\ bagging' = [ bagging EXCEPT !.draws = @ + 1 ]
    /\ UNCHANGED <<learner_parameters_, training_parameters_, pc, forest, tree_index,
                   tree, current_level, node_to_sample_map, node_it, part,
                   parallel_call, rnd_engine, learner_call, checkpoints>>

\* train_forest(samples_start, samples_end, rnd_engine) is entered
TrainForest ==
    /\ pc = "idle"
    /\ forest' = << >>
    /\ tree_index' = 0
    /\ pc' = "train_forest"
    /\ UNCHANGED <<tree, current_level, node_to_sample_map, node_it, part, bagging>>
    /\ UNCHANGED <<learner_parameters_, training_parameters_, parallel_call, rnd_engine,
                   learner_call, checkpoints>>
    /\ UNCHANGED provider_vars

Init ==
    /\ images_ \in TrainingImageVectors
    /\ parameters_ \in TrainingProviderParameters
    /\ image_map_ = << >>
    /\ samples_ = << >>
    /\ call_log = << >>
    /\ training_parameters_ \in TrainingParameterSets
    /\ learner_parameters_ \in LearnerParameterSets
    /\ learner_parameters_.feature_offset_x_range_low
           = learner_parameters_.feature_offset_x_range_high
    /\ NumOfFeatureDraws(training_parameters_, learner_parameters_) <= MaxFeatureDraws
    /\ training_parameters_.level_part_size > 0 => training_parameters_.num_of_trees = 1
    /\ TrainerIdle

Next ==
    \/ /\ pc = "idle"
       /\ \E image_draws \in ImageDraws :
             \E appended \in BatchAppended(compute_sample_bag_batches(1, image_draws)[1]) :
                DrawBag(image_draws, appended)
    \/ TrainForest
    \/ StartTree
    \/ BeginLevel
    \/ \E features \in PartFeatureDraws(node_it..(node_it_next - 1)) :
          LevelPart(features)
    \/ \E json_outcome, binary_outcome \in WriteOutcomes :
          EndLevel(json_outcome, binary_outcome)
    \/ \E json_outcome \in JsonForestWriteOutcomes : \E binary_outcome \in WriteOutcomes :
          AddTree(json_outcome, binary_outcome)
    \/ ReturnForest

Spec == Init /\ [][Next]_vars

----------------------------------------------------------------------------
(* Training runs that write checkpoints *)

CheckpointParameterSets ==
    [ num_of_trees             : { 1, 2 },
      tree_depth               : { 1, 2 },
      minimum_num_of_samples   : { 2 },
      minimum_information_gain : { DefaultMinimumInformationGain },
      level_part_size          : { 0 },
      temporary_json_tree_file_prefix     : { "", "json_tree" },
      temporary_binary_tree_file_prefix   : { "", "binary_tree" },
      temporary_json_forest_file_prefix   : { "", "json_forest" },
      temporary_binary_forest_file_prefix : { "", "binary_forest" } ]

InitCheckpoint ==
    /\ images_ \in TrainingImageVectors
    /\ parameters_ \in TrainingProviderParameters
    /\ image_map_ = << >>
    /\ samples_ = << >>
    /\ call_log = << >>
    /\ parameters_.bagging_fraction = <<1, 1>>
    /\ training_parameters_ \in CheckpointParameterSets
    /\ training_parameters_.num_of_trees + training_parameters_.tree_depth = 3
    /\ learner_parameters_ \in LearnerParameterSets
    /\ learner_parameters_.num_of_features = 1
    /\ learner_parameters_.feature_offset_x_range_low = 1
    /\ learner_parameters_.feature_offset_x_range_high = 1
    /\ TrainerIdle

SpecCheckpoint == InitCheckpoint /\ [][Next]_vars

----------------------------------------------------------------------------
(* Training runs of one tree: train_tree alone, for every level_part_size *)

InitSingleTree ==
    /\ Init
    /\ training_parameters_.num_of_trees = 1

SpecSingleTree == InitSingleTree /\ [][Next]_vars

-----------------------------------------------------------------------------
(* Training runs followed through the positions of train_tree_level_part *)

InitSteps ==
    /\ images_ \in TrainingImageVectors
    /\ parameters_ \in TrainingProviderParameters
    /\ image_map_ = << >>
    /\ samples_ = << >>
    /\ call_log = << >>
    /\ parameters_.bagging_fraction = <<1, 1>>
    /\ training_parameters_ \in TrainingParameterSets
    /\ training_parameters_.num_of_trees = 1
    /\ training_parameters_.minimum_information_gain = DefaultMinimumInformationGain
    /\ learner_parameters_ \in LearnerParameterSets
    /\ learner_parameters_.feature_offset_x_range_low
           = learner_parameters_.feature_offset_x_range_high
    /\ NumOfFeatureDraws(training_parameters_, learner_parameters_) <= MaxFeatureDraws
    /\ TrainerIdle

NextSteps ==
    \/ /\ pc = "idle"
       /\ \E image_draws \in ImageDraws :
             \E appended \in BatchAppended(compute_sample_bag_batches(1, image_draws)[1]) :
                DrawBag(image_draws, appended)
    \/ TrainForest
    \/ StartTree
    \/ BeginLevel
    \/ /\ pc = "train_tree_level"
       /\ \E features \in PartFeatureDraws(node_it..(node_it_next - 1)) :
             EnterLevelPart(features)
    \/ LevelPartStep
    \/ \E json_outcome, binary_outcome \in WriteOutcomes :
          EndLevel(json_outcome, binary_outcome)
    \/ \E json_outcome \in JsonForestWriteOutcomes : \E binary_outcome \in WriteOutcomes :
          AddTree(json_outcome, binary_outcome)
    \/ ReturnForest

SpecSteps == InitSteps /\ [][NextSteps]_vars

----------------------------------------------------------------------------
(* Training runs over the values of level_part_size, run to their end *)

\* below 0, 0, and above 0: less than, equal to and more than the width of
\* a level
LevelPartSizes == { -1, 0, 1, 2, 3 }

\* the bags are subsampled: one sample of one image
InitParts ==
    /\ images_ \in TrainingImageVectors
    /\ parameters_ \in ProviderParameters
    /\ parameters_.samples_per_image_fraction = <<1, 3>>
    /\ parameters_.bagging_fraction = <<1, 2>>
    /\ parameters_.background_label = Int16Max
    /\ image_map_ = << >>
    /\ samples_ = << >>
    /\ call_log = << >>
    /\ training_parameters_ \in
           { [ p EXCEPT !.level_part_size = size ] :
                 p \in TrainingParameterSets, size \in LevelPartSizes }
    /\ training_parameters_.num_of_trees = 1
    /\ training_parameters_.minimum_num_of_samples = 2
    /\ training_parameters_.minimum_information_gain = DefaultMinimumInformationGain
    /\ learner_parameters_ \in LearnerParameterSets
    /\ learner_parameters_.num_of_features = 1
    /\ learner_parameters_.feature_offset_x_range_low
           = learner_parameters_.feature_offset_x_range_high
    /\ NumOfFeatureDraws(training_parameters_, learner_parameters_) <= MaxFeatureDraws
    /\ TrainerIdle

\* what a round of the loop of train_tree_level, or leaving the loop, does
\* to the position of train_tree_level (lines 499-519)
TrainTreeLevelLoop ==
    /\ pc = "train_tree_level"
    /\ IF node_it < level_end(current_level)
       THEN /\ node_it' = node_it_next
            /\ pc' = pc
       ELSE /\ node_it' = node_it
            /\ pc' \in { "train_tree", "aborted" }

\* train_forest runs on one thread: while the loop of train_tree_level has
\* a step that moves its position, one is taken
SpecParts == InitParts /\ [][Next]_vars /\ WF_<<pc, node_it>>(TrainTreeLevelLoop)

----------------------------------------------------------------------------

(* The sample provider under its public operations *)

\* the parameters of the sample provider runs: subsampling is explored with
\* bagging_fraction 1, and the fraction that rounds to the whole image with
\* background_label 1
ProviderRunParameters ==
    { p \in ProviderParameters :
        /\ p.bagging_fraction = <<1, 2>> => p.samples_per_image_fraction = <<1, 1>>
        /\ p.samples_per_image_fraction = <<9, 10>> => p.background_label = 1 }

InitProvider ==
    /\ images_ \in ProviderImageVectors
    /\ parameters_ \in ProviderRunParameters
    /\ image_map_ = << >>
    /\ samples_ = << >>
    /\ call_log = << >>
    /\ training_parameters_ =
           [ num_of_trees |-> 1, tree_depth |-> 1,
             minimum_num_of_samples |-> DefaultMinimumNumOfSamples,
             minimum_information_gain |-> DefaultMinimumInformationGain,
             level_part_size |-> 0 ]
    /\ learner_parameters_ =
           [ num_of_features |-> 1,
             feature_offset_x_range_low |-> 0, feature_offset_x_range_high |-> 0,
             feature_offset_y_range_low |-> 0, feature_offset_y_range_high |-> 0,
             binary_images |-> TRUE ]
    /\ TrainerIdle

NextProvider ==
    \/ \E batch \in Batches : \E appended \in BatchAppended(batch) :
          LoadSampleBatch(batch, appended)
    \/ \E batch \in Batches : \E k \in 1..Len(batch) :
       \E appended \in BatchAppended(SubSeq(batch, 1, k - 1)) :
          LoadSampleBatchThrows(batch, k, appended)
    \/ \E image_draws \in ImageDraws :
          \E appended \in BatchAppended(compute_sample_bag_batches(1, image_draws)[1]) :
             LoadSampleBag(image_draws, appended)
    \/ \E image_index \in DOMAIN images_ : \E appended \in Appended(image_index) :
          LoadSamplesFromImage(image_index, appended)
    \/ ClearImageCache
    \/ ClearSamples

SpecProvider == InitProvider /\ [][NextProvider]_vars

----------------------------------------------------------------------------
(* The weak learner under compute_split_statistics_parallel *)

ParallelLearnerParameterSets ==
    { lp \in [ num_of_features            : { 0, 1, 2, 3 },
               feature_offset_x_range_low : { 1 },
               feature_offset_x_range_high: { 1 },
               feature_offset_y_range_low : { 0 },
               feature_offset_y_range_high: { 0 },
               binary_images              : { TRUE } ] : TRUE }

InitParallel ==
    /\ images_ \in TrainingImageVectors
    /\ parameters_ \in TrainingProviderParameters
    /\ image_map_ = << >>
    /\ samples_ = << >>
    /\ call_log = << >>
    /\ training_parameters_ =
           [ num_of_trees |-> 1, tree_depth |-> 1,
             minimum_num_of_samples |-> DefaultMinimumNumOfSamples,
             minimum_information_gain |-> DefaultMinimumInformationGain,
             level_part_size |-> 0 ]
    /\ learner_parameters_ \in ParallelLearnerParameterSets
    /\ TrainerIdle

NextParallel ==
    \/ \E image_draws \in ImageDraws :
          \E appended \in BatchAppended(compute_sample_bag_batches(1, image_draws)[1]) :
             parallel_call.pc = "idle" /\ DrawBag(image_draws, appended)
    \/ \E features \in [ 1..learner_parameters_.num_of_features -> FeatureDraws ] :
       \E num_of_threads \in -1..MaxThreads :
       \E hardware_concurrency \in HardwareConcurrency :
          CallParallel(features, num_of_threads, hardware_concurrency)
    \/ \E thread_index \in 0..(MaxThreads - 1) : ThreadStep(thread_index)
    \/ JoinThreads

SpecParallel == InitParallel /\ [][NextParallel]_vars

----------------------------------------------------------------------------
(* The weak learner called on its own *)

\* the largest number of thresholds one sample_split_points call draws
MaxThresholdDraws == 2

\* an image of the ends of the pixel range
ImageX == MkImage(3, 1, <<32767, 0, -32768>>, <<0, 1, 0>>)

LearnerImageVectors == { ImageVector(<<ImageT0>>), ImageVector(<<ImageX>>) }

\* ImageWeakLearnerParameters: the threshold parameters in whole units
WeakLearnerParameterSets ==
    { lp \in [ num_of_features            : { 1, 2 },
               feature_offset_x_range_low : { 1 },
               feature_offset_x_range_high: { 1 },
               feature_offset_y_range_low : { 0 },
               feature_offset_y_range_high: { 0 },
               num_of_thresholds          : 0..MaxThresholdDraws,
               threshold_range_low        : { -1, 0 },
               threshold_range_high       : { 0, 1 },
               adaptive_threshold_range   : BOOLEAN,
               binary_images              : BOOLEAN ] :
        /\ lp.threshold_range_low = 0 - lp.threshold_range_high
        /\ lp.binary_images => lp.num_of_thresholds # 1
        /\ ~lp.binary_images =>
               lp.num_of_features * lp.num_of_thresholds <= MaxThresholdDraws
        /\ ~lp.binary_images /\ lp.adaptive_threshold_range =>
               lp.threshold_range_high = 1 }

\* the sample ranges the weak learner is called on: none, one sample, all
LearnerSampleRanges ==
    { << >>, SampleRange } \cup { <<i>> : i \in 1..Len(samples_) }

\* the provider has loaded image 0 whole, the weak learner has not been
\* called
InitLearner ==
    /\ images_ \in LearnerImageVectors
    /\ parameters_ \in TrainingProviderParameters
    /\ parameters_.bagging_fraction = <<1, 1>>
    /\ LET r == LoadBatchItems(<<0>>, 1, << >>,
                     <<SamplesFromImage(images_, parameters_, 0, << >>)>>)
       IN  /\ image_map_ = r.map
           /\ samples_ = r.samples
           /\ call_log = r.log
    /\ training_parameters_ =
           [ num_of_trees |-> 1, tree_depth |-> 1,
             minimum_num_of_samples |-> DefaultMinimumNumOfSamples,
             minimum_information_gain |-> DefaultMinimumInformationGain,
             level_part_size |-> 0 ]
    /\ learner_parameters_ \in WeakLearnerParameterSets
    /\ TrainerIdle

learner_frame ==
    /\ UNCHANGED <<learner_parameters_, training_parameters_, pc, forest,
                   tree_index, tree, current_level, node_to_sample_map, node_it,
                   part, bagging, rnd_engine, parallel_call, checkpoints>>
    /\ UNCHANGED provider_vars

\* sample_split_points(first_sample, last_sample, rnd_engine)
SampleSplitPoints(pointers, features, threshold_draws) ==
    /\ learner_call' =
           [ call |-> "sample_split_points",
             pointers |-> pointers,
             split_points |-> sample_split_points(pointers, features, threshold_draws) ]
    /\ learner_frame

\* ImageSplitPoint::evaluate(sample) on the split point at index of the
\* candidates sampled, pixel_difference being what the conversion to PixelT
\* gives; training_left is the side left_direction gives the scalar
\* difference of ImageFeature::compute_pixel_difference
Evaluate(index, sample, pixel_difference) ==
    /\ learner_call.call = "sample_split_points"
    /\ index < total_size(learner_call.split_points)
    /\ LET split_point == get_split_point(learner_call.split_points, index)
           difference == compute_pixel_difference(split_point.feature, sample)
       IN  /\ pixel_difference \in ConversionsToPixelT(difference)
           /\ learner_call' =
                  [ call |-> "evaluate",
                    split_point |-> split_point,
                    sample |-> sample,
                    left |-> 2 * pixel_difference < split_point.threshold,
                    training_left |-> left_direction(split_point.threshold, difference) ]
    /\ learner_frame

\* the offsets compute_pixel_value is called with
PixelOffsets == { 0 - Int16Max - 1, -1, 0, 1, Int16Max }

\* compute_pixel_value(sample, offset_x, offset_y)
ComputePixelValue(sample, offset_x, offset_y) ==
    /\ learner_call' =
           [ call |-> "compute_pixel_value",
             sample |-> sample,
             offset_x |-> offset_x,
             offset_y |-> offset_y,
             value |-> compute_pixel_value(sample, offset_x, offset_y) ]
    /\ learner_frame

\* one call of the weak learner from the loaded state, and the evaluation of
\* a sample at a split point of the candidates sampled
NextLearner ==
    \/ /\ learner_call = NoLearnerCall
       /\ \E pointers \in LearnerSampleRanges :
          \E features \in [ 1..learner_parameters_.num_of_features -> FeatureDraws ] :
          \E threshold_draws \in SplitPointDraws(pointers, features) :
             SampleSplitPoints(pointers, features, threshold_draws)
    \/ /\ learner_call.call = "sample_split_points"
       /\ \E index \in 0..(2 * MaxThresholdDraws) :
          \E sample \in Range(samples_) :
          \E pixel_difference \in { -1, 0, 1, 0 - Int16Max - 1, Int16Max } :
             Evaluate(index, sample, pixel_difference)
    \/ /\ learner_call = NoLearnerCall
       /\ \E sample \in Range(samples_) : \E offset_x, offset_y \in PixelOffsets :
             ComputePixelValue(sample, offset_x, offset_y)

SpecLearner == InitLearner /\ [][NextLearner]_vars

----------------------------------------------------------------------------
(* Split point candidates built feature by feature *)

\* the largest number of features added to one ImageSplitPointCandidates
MaxCandidates == 2

\* the features added
CandidateFeatures == { <<-1, 0, 1, 0>>, <<1, 0, -1, 0>> }

\* the threshold lists added, in half units
CandidateThresholds == UNION { [ 1..n -> { -1, 1 } ] : n \in 0..MaxThresholdDraws }

\* the provider has loaded image 0 whole, the candidates are empty
InitCandidates ==
    /\ images_ = ImageVector(<<ImageT0>>)
    /\ parameters_ \in TrainingProviderParameters
    /\ parameters_.bagging_fraction = <<1, 1>>
    /\ LET r == LoadBatchItems(<<0>>, 1, << >>,
                     <<SamplesFromImage(images_, parameters_, 0, << >>)>>)
       IN  /\ image_map_ = r.map
           /\ samples_ = r.samples
           /\ call_log = r.log
    /\ training_parameters_ =
           [ num_of_trees |-> 1, tree_depth |-> 1,
             minimum_num_of_samples |-> DefaultMinimumNumOfSamples,
             minimum_information_gain |-> DefaultMinimumInformationGain,
             level_part_size |-> 0 ]
    /\ learner_parameters_ =
           [ num_of_features |-> 1,
             feature_offset_x_range_low |-> 1, feature_offset_x_range_high |-> 1,
             feature_offset_y_range_low |-> 0, feature_offset_y_range_high |-> 0,
             binary_images |-> TRUE ]
    /\ TrainerIdle

\* the candidates built so far
candidates_ ==
    IF learner_call.call = "none" THEN << >> ELSE learner_call.split_points

\* ImageSplitPointCandidates::add_feature_and_thresholds
AddFeatureAndThresholds(feature, thresholds) ==
    /\ learner_call.call \in { "none", "add_feature_and_thresholds" }
    /\ Len(candidates_) < MaxCandidates
    /\ learner_call' =
           [ call |-> "add_feature_and_thresholds",
             split_points |-> Append(candidates_,
                                     [ feature |-> feature, thresholds |-> thresholds ]) ]
    /\ learner_frame

\* ImageSplitPointCandidates::get_split_point(index) on the candidates built
GetSplitPoint(index) ==
    /\ learner_call.call \in { "none", "add_feature_and_thresholds" }
    /\ index <= total_size(candidates_) + 1
    /\ learner_call' =
           [ call |-> "get_split_point",
             split_points |-> candidates_,
             index |-> index,
             split_point |-> get_split_point(candidates_, index) ]
    /\ learner_frame

\* no _compute_split_statistics call of compute_split_statistics indexes
\* split_statistics beyond its size
SlotsInRange(split_points) ==
    \A i \in DOMAIN split_points :
        SlotsWritten(statistics_index_offset_of(split_points, i),
                     split_points[i].thresholds)
            \subseteq 0..(total_size(split_points) - 1)

\* ImageWeakLearner::compute_split_statistics on the candidates built, where
\* every index it uses is inside split_statistics
ComputeSplitStatistics(pointers) ==
    /\ learner_call.call \in { "none", "add_feature_and_thresholds" }
    /\ SlotsInRange(candidates_)
    /\ learner_call' =
           [ call |-> "compute_split_statistics",
             split_points |-> candidates_,
             pointers |-> pointers,
             split_statistics |-> compute_split_statistics(pointers, candidates_) ]
    /\ learner_frame

NextCandidates ==
    \/ \E feature \in CandidateFeatures : \E thresholds \in CandidateThresholds :
          AddFeatureAndThresholds(feature, thresholds)
    \/ \E index \in 0..(MaxCandidates * MaxThresholdDraws + 1) : GetSplitPoint(index)
    \/ \E pointers \in LearnerSampleRanges : ComputeSplitStatistics(pointers)

SpecCandidates == InitCandidates /\ [][NextCandidates]_vars

----------------------------------------------------------------------------
(* The construction of images *)

\* the largest number of Image constructions of one run
MaxConstructions == 2

\* an Eigen matrix of the given shape, every coefficient 0
Matrix(rows, cols) == [ p \in (0..(rows - 1)) \X (0..(cols - 1)) |-> 0 ]

rows(matrix) == Cardinality({ p[1] : p \in DOMAIN matrix })

cols(matrix) == Cardinality({ p[2] : p \in DOMAIN matrix })

\* the shapes <<rows, cols>> of the matrices and image files given
MatrixShapes == { <<1, 1>>, <<1, 2>>, <<2, 1>> }

\* Image::check_equal_dimensions: TRUE when it returns, FALSE when it throws
check_equal_dimensions(data_matrix, label_matrix) ==
    ~ ( \/ rows(data_matrix) # rows(label_matrix)
        \/ cols(data_matrix) # cols(label_matrix) )

\* what a dynamic Eigen matrix holds after std::move has been applied to it
\* and a member was constructed from it: nothing when the build's Eigen moves
\* the storage (eigen_moves), the same coefficients when it copies
MovedFrom(matrix, eigen_moves) == IF eigen_moves THEN Matrix(0, 0) ELSE matrix

\* an Image of the members data_matrix_ and label_matrix_; width() and
\* height() are the rows and the columns of data_matrix_
ImageOf(data_matrix, label_matrix) ==
    [ width |-> rows(data_matrix), height |-> cols(data_matrix),
      data |-> data_matrix, label |-> label_matrix ]

ImageCall(constructor, throws) == [ call |-> constructor, throws |-> throws ]

\* an Image constructor with the members initialised from data_matrix and
\* label_matrix, and check_equal_dimensions called on checked_data and
\* checked_label; the image is kept in images_ when the constructor returns
ConstructImage(constructor, data_matrix, label_matrix, checked_data, checked_label) ==
    /\ IF check_equal_dimensions(checked_data, checked_label)
       THEN /\ images_' = [ i \in 0..Cardinality(DOMAIN images_) |->
                              IF i \in DOMAIN images_
                              THEN images_[i]
                              ELSE ImageOf(data_matrix, label_matrix) ]
            /\ call_log' = Append(call_log, ImageCall(constructor, FALSE))
       ELSE /\ images_' = images_
            /\ call_log' = Append(call_log, ImageCall(constructor, TRUE))
    /\ UNCHANGED <<parameters_, image_map_, samples_>>
    /\ UNCHANGED trainer_vars

\* Image(const DataMatrixType&, const LabelMatrixType&)
ImageCopy(data_matrix, label_matrix) ==
    /\ Len(call_log) < MaxConstructions
    /\ ConstructImage("Image(const&)", data_matrix, label_matrix, data_matrix, label_matrix)

\* Image(DataMatrixType&&, LabelMatrixType&&): the check reads the arguments
\* after the members were move-constructed from them
ImageMove(data_matrix, label_matrix, eigen_moves) ==
    /\ Len(call_log) < MaxConstructions
    /\ ConstructImage("Image(&&)", data_matrix, label_matrix,
                      MovedFrom(data_matrix, eigen_moves),
                      MovedFrom(label_matrix, eigen_moves))

\* Image::load_from_files for a data file and a label file of the shapes
\* given, depth 1 and spectrum 1: the asserts and the size test stop a
\* mismatch, else the image is built by the copying constructor
load_from_files(data_shape, label_shape) ==
    /\ Len(call_log) < MaxConstructions
    /\ IF data_shape # label_shape
       THEN /\ call_log' = Append(call_log, ImageCall("load_from_files", TRUE))
            /\ UNCHANGED <<images_, parameters_, image_map_, samples_>>
            /\ UNCHANGED trainer_vars
       ELSE ConstructImage("load_from_files",
                           Matrix(data_shape[1], data_shape[2]),
                           Matrix(data_shape[1], data_shape[2]),
                           Matrix(data_shape[1], data_shape[2]),
                           Matrix(data_shape[1], data_shape[2]))

\* no image has been constructed
InitImage ==
    /\ images_ = << >>
    /\ parameters_ \in TrainingProviderParameters
    /\ parameters_.bagging_fraction = <<1, 1>>
    /\ image_map_ = << >>
    /\ samples_ = << >>
    /\ call_log = << >>
    /\ training_parameters_ =
           [ num_of_trees |-> 1, tree_depth |-> 1,
             minimum_num_of_samples |-> DefaultMinimumNumOfSamples,
             minimum_information_gain |-> DefaultMinimumInformationGain,
             level_part_size |-> 0 ]
    /\ learner_parameters_ =
           [ num_of_features |-> 1,
             feature_offset_x_range_low |-> 0, feature_offset_x_range_high |-> 0,
             feature_offset_y_range_low |-> 0, feature_offset_y_range_high |-> 0,
             binary_images |-> TRUE ]
    /\ TrainerIdle

NextImage ==
    \E data_shape, label_shape \in MatrixShapes :
       LET data_matrix == Matrix(data_shape[1], data_shape[2])
           label_matrix == Matrix(label_shape[1], label_shape[2])
       IN  \/ ImageCopy(data_matrix, label_matrix)
           \/ \E eigen_moves \in BOOLEAN :
                  ImageMove(data_matrix, label_matrix, eigen_moves)
           \/ load_from_files(data_shape, label_shape)

SpecImage == InitImage /\ [][NextImage]_vars

----------------------------------------------------------------------------
(* The sample provider under compute_sample_bag_batches *)

MaxImages == 3
MaxBatches == 4

BatchImageVectors ==
    { ImageVector([ i \in 1..n |-> ImageB ]) : n \in 1..MaxImages }

BatchParameters ==
    [ samples_per_image_fraction : { <<1, 1>> },
      bagging_fraction           : { <<0, 1>>, <<1, 2>>, <<1, 1>> },
      background_label           : { Int16Max } ]

InitBatches ==
    /\ images_ \in BatchImageVectors
    /\ parameters_ \in BatchParameters
    /\ image_map_ = << >>
    /\ samples_ = << >>
    /\ call_log = << >>
    /\ training_parameters_ =
           [ num_of_trees |-> 1, tree_depth |-> 1,
             minimum_num_of_samples |-> DefaultMinimumNumOfSamples,
             minimum_information_gain |-> DefaultMinimumInformationGain,
             level_part_size |-> 0 ]
    /\ learner_parameters_ =
           [ num_of_features |-> 1,
             feature_offset_x_range_low |-> 0, feature_offset_x_range_high |-> 0,
             feature_offset_y_range_low |-> 0, feature_offset_y_range_high |-> 0,
             binary_images |-> TRUE ]
    /\ TrainerIdle

NextBatches ==
    \E num_of_batches \in 0..MaxBatches : \E image_draws \in ImageDraws :
        ComputeSampleBagBatches(num_of_batches, image_draws)

SpecBatches == InitBatches /\ [][NextBatches]_vars

----------------------------------------------------------------------------
(* Properties of the sample provider *)

\* C1: with samples_per_image_fraction < 1, the samples one call of
\* load_samples_from_image draws from an image are pairwise distinct pixels.
C1_DrawsAreDistinct ==
    SubsamplingOn(parameters_) =>
        \A c \in DOMAIN call_log :
            call_log[c].call = "load_samples_from_image" =>
                \A i, j \in DOMAIN call_log[c].samples :
                    i # j => call_log[c].samples[i] # call_log[c].samples[j]

\* the load_samples_from_image calls of the last operation
LoadCalls == SelectSeq(call_log, LAMBDA e : e.call = "load_samples_from_image")

\* the get_image calls of the last operation
GetImageCalls == SelectSeq(call_log, LAMBDA e : e.call = "get_image")

\* the pixels of an image whose label differs from background_label
NonBackgroundPixels(image_index) ==
    { q \in DOMAIN images_[image_index].label :
        images_[image_index].label[q] # parameters_.background_label }

\* round(f * W * H) for the fraction f = a / b: the integer nearest to it,
\* halves upwards
RoundedSamplesPerImage(image_index) ==
    LET a  == parameters_.samples_per_image_fraction[1]
        b  == parameters_.samples_per_image_fraction[2]
        wh == images_[image_index].width * images_[image_index].height
    IN  CHOOSE r \in 0..wh : 2 * b * r <= 2 * a * wh + b /\ 2 * a * wh + b < 2 * b * (r + 1)

\* C11: one call of load_samples_from_image on a W x H image appends
\* min(round(f*W*H), n) samples when f < 1 and n samples, one per
\* non-background pixel, when f >= 1, n the number of pixels whose label is
\* not background_label; every appended sample lies inside the image and
\* references it.
C11_AppendedCount ==
    \A c \in DOMAIN LoadCalls :
        LET e == LoadCalls[c]
            image == images_[e.image_index]
            n == Cardinality(NonBackgroundPixels(e.image_index))
            f_below_1 == parameters_.samples_per_image_fraction[1]
                            < parameters_.samples_per_image_fraction[2]
        IN  /\ f_below_1 =>
                  Len(e.samples) = Min(RoundedSamplesPerImage(e.image_index), n)
            /\ ~f_below_1 =>
                  /\ Len(e.samples) = n
                  /\ { <<e.samples[i].x, e.samples[i].y>> : i \in DOMAIN e.samples }
                        = NonBackgroundPixels(e.image_index)
            /\ \A i \in DOMAIN e.samples :
                  /\ e.samples[i].image = e.image_index
                  /\ e.samples[i].x \in 0..(image.width - 1)
                  /\ e.samples[i].y \in 0..(image.height - 1)

\* one operation has made a subsampling call that took round(f*W*H) pixels
\* and one that took all n pixels for want of more, and the sample list
\* holds what was appended
C11_Witness ==
    /\ parameters_.samples_per_image_fraction[1]
          < parameters_.samples_per_image_fraction[2]
    /\ \E c \in DOMAIN LoadCalls :
          /\ Len(LoadCalls[c].samples) = RoundedSamplesPerImage(LoadCalls[c].image_index)
          /\ Len(LoadCalls[c].samples)
                <= Cardinality(NonBackgroundPixels(LoadCalls[c].image_index))
    /\ \E c \in DOMAIN LoadCalls :
          /\ Len(LoadCalls[c].samples)
                = Cardinality(NonBackgroundPixels(LoadCalls[c].image_index))
          /\ Len(LoadCalls[c].samples) < RoundedSamplesPerImage(LoadCalls[c].image_index)
    /\ Len(samples_) >= 2

\* the last operation was a load_sample_batch
BatchLoaded == call_log # << >> /\ call_log[1].call = "load_sample_batch"

\* the last operation ran to its end
Completed == \A c \in DOMAIN GetImageCalls : ~GetImageCalls[c].throws

\* C12: after load_sample_batch(batch) completes, the key set of the live
\* image map is the set of the distinct image indices of the batch.
C12_LiveMapIsTheBatch ==
    (BatchLoaded /\ Completed) =>
        DOMAIN image_map_ = { LoadCalls[c].image_index : c \in DOMAIN LoadCalls }

\* a batch naming one image twice has been loaded from the cache alone, and
\* the live map holds that image only
C12_Witness ==
    /\ BatchLoaded
    /\ Completed
    /\ Len(LoadCalls) = 2
    /\ GetImageCalls = << >>
    /\ Cardinality(DOMAIN image_map_) = 1
    /\ LoadCalls[1].image_index \in DOMAIN image_map_

\* C13: during load_sample_batch get_image is called only for image indices
\* that are not in the live image map the call finds, and at most once per
\* index.
C13_GetImageOnlyForNewImages ==
    [][ (call_log' # << >> /\ call_log'[1].call = "load_sample_batch") =>
          LET g == SelectSeq(call_log', LAMBDA e : e.call = "get_image")
          IN  \A i \in DOMAIN g :
                  /\ g[i].image_index \notin DOMAIN image_map_
                  /\ \A j \in DOMAIN g : j # i => g[j].image_index # g[i].image_index
      ]_vars

\* a batch of two images has been loaded with one get_image call, the other
\* image being taken from the previous live map or named twice
C13_Witness ==
    /\ BatchLoaded
    /\ Completed
    /\ Len(LoadCalls) = 2
    /\ Len(GetImageCalls) = 1
    /\ Cardinality(DOMAIN image_map_) = 2

\* round(bagging_fraction * N): the integer nearest to it, halves upwards
RoundedImagesPerBag ==
    LET a == parameters_.bagging_fraction[1]
        b == parameters_.bagging_fraction[2]
        N == Cardinality(DOMAIN images_)
    IN  CHOOSE r \in 0..(2 * N) :
            2 * b * r <= 2 * a * N + b /\ 2 * a * N + b < 2 * b * (r + 1)

RECURSIVE Concatenation(_)
Concatenation(batches) ==
    IF batches = << >> THEN << >> ELSE Head(batches) \o Concatenation(Tail(batches))

\* C14: compute_sample_bag_batches(B, rng) returns B batches whose
\* concatenation (for B >= 1) is a non-decreasing list of
\* M = round(bagging_fraction * N) image indices in [0, N), batch i of size
\* floor((i+1)M/B) - floor(iM/B).
C14_BagBatches ==
    (call_log # << >> /\ call_log[1].call = "compute_sample_bag_batches") =>
        LET B == call_log[1].num_of_batches
            batches == call_log[1].batches
            all == Concatenation(batches)
            M == RoundedImagesPerBag
        IN  /\ Len(batches) = B
            /\ B > 0 => Len(all) = M
            /\ \A i \in DOMAIN all : all[i] \in 0..(Cardinality(DOMAIN images_) - 1)
            /\ \A i, j \in DOMAIN all : i < j => all[i] <= all[j]
            /\ \A i \in 1..B :
                  Len(batches[i]) = (i * M) \div B - ((i - 1) * M) \div B

\* a bag of several images, drawn out of order and with a repeated index,
\* has been split into batches of different sizes
C14_Witness ==
    /\ call_log # << >>
    /\ call_log[1].call = "compute_sample_bag_batches"
    /\ call_log[1].num_of_batches >= 2
    /\ \E i, j \in DOMAIN call_log[1].batches :
          /\ i < j
          /\ Len(call_log[1].batches[i]) < Len(call_log[1].batches[j])
          /\ call_log[1].batches[i] # << >>
          /\ Head(call_log[1].batches[i]) = Head(call_log[1].batches[j])

\* C2: after any sequence of the provider's operations every sample of the
\* sample list references an image held in the live image map.
C2_SamplesHaveLiveImage ==
    \A i \in DOMAIN samples_ : samples_[i].image \in DOMAIN image_map_

\* C10: no sample whose label is greater than or equal to background_label
\* is put in the sample list.
C10_NoLabelFromBackgroundUp ==
    \A i \in DOMAIN samples_ : get_label(samples_[i]) < parameters_.background_label

----------------------------------------------------------------------------
(* Properties of compute_split_statistics_parallel *)

\* the number of worker threads of the call
NumOfWorkers == Cardinality(DOMAIN parallel_call.next)

\* C15: for every sample range, every candidate set of sample_split_points
\* and every num_threads >= 1, under every interleaving of the threads,
\* compute_split_statistics_parallel returns statistics equal slot by slot
\* to those of compute_split_statistics.
C15_ParallelEqualsSerial ==
    (parallel_call.pc = "returned" /\ parallel_call.num_of_threads >= 1) =>
        LET serial == compute_split_statistics(SampleRange, parallel_call.split_points)
        IN  /\ DOMAIN parallel_call.split_statistics.left = DOMAIN serial.left
            /\ \A k \in DOMAIN serial.left :
                  /\ parallel_call.split_statistics.left[k] = serial.left[k]
                  /\ parallel_call.split_statistics.right[k] = serial.right[k]

\* a call with several threads and several features has returned statistics
\* that count samples on both sides
C15_Witness ==
    /\ parallel_call.pc = "returned"
    /\ parallel_call.num_of_threads >= 2
    /\ Len(parallel_call.split_points) >= 2
    /\ \E k \in DOMAIN parallel_call.split_statistics.left :
          /\ parallel_call.split_statistics.left[k].num_of_samples > 0
          /\ parallel_call.split_statistics.right[k].num_of_samples > 0

\* C16: no statistics slot is written by two different threads: each thread
\* writes only the slots of its own contiguous range of features.
C16_SlotsHaveOneWriter ==
    parallel_call.pc # "idle" =>
        \A k \in DOMAIN parallel_call.writers :
            /\ Cardinality(parallel_call.writers[k]) <= 1
            /\ \A t \in parallel_call.writers[k] :
                  LET size == Len(parallel_call.split_points)
                      feature_index == k \div Len(BinaryThresholds)
                  IN  /\ (t * size) \div NumOfWorkers <= feature_index
                      /\ feature_index < ((t + 1) * size) \div NumOfWorkers

\* two threads have each written slots of the shared statistics
C16_Witness ==
    /\ parallel_call.pc = "threads"
    /\ \E k1, k2 \in DOMAIN parallel_call.writers :
          /\ parallel_call.writers[k1] # {}
          /\ parallel_call.writers[k2] # {}
          /\ parallel_call.writers[k1] # parallel_call.writers[k2]
    /\ samples_ # << >>

----------------------------------------------------------------------------
(* Properties of the trainer *)

\* the split statistics of the last train_tree_level_part, per node
PartSlots(n) == DOMAIN part.split_statistics_batch[n].left

\* C3: for every frontier node and every candidate index k, left[k] and
\* right[k] of the split statistics count together as many samples as the
\* statistics of the node.
C3_CountsAddUp ==
    (part.level > 0 /\ part.split) =>
        \A n \in part.nodes : \A k \in PartSlots(n) :
            part.split_statistics_batch[n].left[k].num_of_samples
              + part.split_statistics_batch[n].right[k].num_of_samples
                = part.current_statistics[n].num_of_samples

\* C4: when compute_split_statistics has returned, finish_lazy_accumulation
\* has been called on left[k] and right[k] for every candidate index k, after
\* the lazy_accumulate calls, so the counts are those of immediate
\* accumulation.
C4_EverySlotFinished ==
    (part.level > 0 /\ part.split) =>
        \A n \in part.nodes : \A k \in PartSlots(n) :
            LET left  == part.split_statistics_batch[n].left[k]
                right == part.split_statistics_batch[n].right[k]
            IN  /\ left.lazy_finished
                /\ right.lazy_finished
                /\ left.num_of_samples = HistogramSum(left.histogram)
                /\ right.num_of_samples = HistogramSum(right.histogram)

\* C5: in a level pass with level < tree_depth a frontier node is marked leaf
\* exactly when its best gain < minimum_information_gain or its sample count
\* < minimum_num_of_samples; otherwise it is internal and stores the best
\* split point; either way both its children are flagged leaf.
C5_LeafRule ==
    (part.level > 0 /\ part.level < training_parameters_.tree_depth) =>
        /\ part.split
        /\ \A n \in part.nodes :
            LET best == part.best_split_point_batch[n]
                below == \/ best.information_gain
                              < training_parameters_.minimum_information_gain
                         \/ part.current_statistics[n].num_of_samples
                              < training_parameters_.minimum_num_of_samples
            IN  /\ tree[n].leaf <=> below
                /\ ~below =>
                      /\ tree[n].split_point = best.split_point
                      /\ best.split_point =
                            get_split_point(part.split_points_batch[n], best.index)
                /\ tree[left_child(n)].leaf
                /\ tree[right_child(n)].leaf

\* a level pass below tree_depth has left one node a leaf for want of
\* samples or gain and another, holding samples, internal
C5_Witness ==
    /\ part.level > 0
    /\ part.level < training_parameters_.tree_depth
    /\ \E n \in part.nodes :
          /\ ~tree[n].leaf
          /\ tree[n].split_point = part.best_split_point_batch[n].split_point
          /\ part.current_statistics[n].num_of_samples > 0
          /\ tree[left_child(n)].leaf
    /\ \E n \in part.nodes :
          /\ tree[n].leaf
          /\ part.current_statistics[n].num_of_samples > 0

\* C6: after train_tree a node flagged leaf holds no split point.
C6_LeafHoldsNoSplitPoint ==
    \A i \in DOMAIN forest : \A n \in DOMAIN forest[i] :
        forest[i][n].leaf => forest[i][n].split_point = NoSplitPoint

AllSamples == [ i \in 1..Len(samples_) |-> i ]

\* the information gain of a split point over the whole bag
GainOverBag(split_point) ==
    LET split_statistics ==
            compute_split_statistics(AllSamples,
                << [ feature |-> split_point.feature,
                     thresholds |-> <<split_point.threshold>> ] >>)
    IN  compute_information_gain(accumulate_range(create_statistics, AllSamples),
                                 split_statistics.left[0], split_statistics.right[0])

\* some split point sample_split_points can draw separates the labels of the
\* bag with positive gain
SeparableBag ==
    \E feature \in FeatureDraws : \E j \in DOMAIN BinaryThresholds :
        GainOverBag(ImageSplitPoint(feature, BinaryThresholds[j])) > 0

\* C7, as stated: training with tree_depth = 1 on a bag whose labels can be
\* separated with positive gain, minimum_num_of_samples not above the bag
\* size, ends with the root internal, holding a split of gain > 0, and both
\* children leaves.
C7_Depth1RootIsSplit ==
    ( /\ pc = "done"
      /\ training_parameters_.tree_depth = 1
      /\ training_parameters_.minimum_information_gain = DefaultMinimumInformationGain
      /\ training_parameters_.minimum_num_of_samples <= Len(samples_)
      /\ SeparableBag ) =>
        \A i \in DOMAIN forest :
            /\ ~forest[i][0].leaf
            /\ forest[i][0].split_point # NoSplitPoint
            /\ forest[i][1].leaf
            /\ forest[i][2].leaf

\* C7, amended: with tree_depth = 1 the root ends a leaf holding no split;
\* with tree_depth = 2, when the best
\* split found for the root has a gain > 0 that is not below
\* minimum_information_gain and minimum_num_of_samples is not above the bag
\* size, the level-1 pass leaves the root internal holding that split and
\* both children leaves, and so they end.
C7_RootSplitNeedsDepth2 ==
    /\ (training_parameters_.tree_depth = 1 /\ tree # << >>) =>
          /\ tree[0].leaf
          /\ tree[0].split_point = NoSplitPoint
    /\ ( /\ training_parameters_.tree_depth = 2
         /\ part.level = 1
         /\ part.best_split_point_batch[0].information_gain > 0
         /\ part.best_split_point_batch[0].information_gain
               >= training_parameters_.minimum_information_gain
         /\ training_parameters_.minimum_num_of_samples <= Len(samples_) ) =>
          /\ ~tree[0].leaf
          /\ tree[0].split_point = part.best_split_point_batch[0].split_point
          /\ tree[1].leaf
          /\ tree[2].leaf
    /\ (training_parameters_.tree_depth = 2 /\ pc = "done") =>
          \A i \in DOMAIN forest :
              ~forest[i][0].leaf =>
                  /\ forest[i][0].split_point # NoSplitPoint
                  /\ forest[i][1].leaf
                  /\ forest[i][2].leaf

\* a run of tree_depth = 2 has ended with the root internal, holding a split
\* of positive gain over the bag
C7_Witness ==
    /\ pc = "done"
    /\ training_parameters_.tree_depth = 2
    /\ training_parameters_.minimum_num_of_samples <= Len(samples_)
    /\ \E i \in DOMAIN forest :
          /\ ~forest[i][0].leaf
          /\ GainOverBag(forest[i][0].split_point) > 0
          /\ forest[i][1].leaf
          /\ forest[i][2].leaf

\* the nodes of the levels 1..tree_depth of a tree, the ones train_tree
\* considers or flags
TrainedNodes == 0..(Pow2(training_parameters_.tree_depth) - 2)

\* C17: a tree trained with minimum_num_of_samples greater than the number
\* of samples of the bag is a single-leaf tree: the root is a leaf and no
\* node of its levels is internal, for every tree_depth >= 1.
C17_SingleLeafTree ==
    (pc = "done" /\ training_parameters_.minimum_num_of_samples > Len(samples_)) =>
        \A i \in DOMAIN forest :
            /\ forest[i][0].leaf
            /\ \A n \in TrainedNodes : forest[i][n].leaf

\* a run of several levels on a bag with samples, all fewer than
\* minimum_num_of_samples, has ended
C17_Witness ==
    /\ pc = "done"
    /\ training_parameters_.minimum_num_of_samples > Len(samples_)
    /\ Len(samples_) > 0
    /\ training_parameters_.tree_depth >= 3
    /\ forest # << >>
    /\ forest[1][0].leaf
    /\ forest[1][0].statistics.num_of_samples = Len(samples_)

\* C18: train_tree on an empty bag returns a tree whose root is a leaf, and
\* no split is computed for any node.
C18_EmptyBagNoSplit ==
    (samples_ = << >> /\ pc # "idle") =>
        /\ part.level > 0 => ~part.split
        /\ tree # << >> =>
              /\ tree[0].leaf
              /\ \A n \in DOMAIN tree : tree[n].split_point = NoSplitPoint

\* the level of a node, the root being the node of level 1
RECURSIVE node_level(_)
node_level(node) == IF node = 0 THEN 1 ELSE 1 + node_level((node - 1) \div 2)

\* the state get_sample_node_map of level pass current_level has just left
Routed ==
    /\ pc = "train_tree_level"
    /\ node_it = level_begin(current_level)

\* C19: at every level pass l of train_tree, the evaluation of every sample
\* of the bag ends at a leaf node, the root or a descendant of it no deeper
\* than level l; a sample that ends at a node of level l is in its bucket.
C19_RoutingEndsAtLeaf ==
    Routed =>
        \A i \in 1..Len(samples_) :
            LET node == tree_evaluate(tree, 0, samples_[i])
            IN  /\ node \in DOMAIN tree
                /\ tree[node].leaf
                /\ node_level(node) <= current_level
                /\ node_level(node) = current_level =>
                       \E k \in 1..Len(node_to_sample_map[node]) :
                           node_to_sample_map[node][k] = i

\* level pass 3 with a sample that ends at level 3 and one that ends above
C19_Witness ==
    /\ Routed
    /\ current_level = 3
    /\ \E i \in 1..Len(samples_) :
          node_level(tree_evaluate(tree, 0, samples_[i])) = 3
    /\ \E i \in 1..Len(samples_) :
          node_level(tree_evaluate(tree, 0, samples_[i])) < 3

\* the features of the nodes of a level, taken from the head of the draws
features_of_level(draws, level) ==
    IF SplitsAtLevel(level)
    THEN [ n \in level_begin(level)..(level_end(level) - 1) |->
             [ k \in 1..learner_parameters_.num_of_features |->
                 draws[(n - level_begin(level)) * learner_parameters_.num_of_features + k] ] ]
    ELSE [ n \in level_begin(level)..(level_end(level) - 1) |-> << >> ]

num_of_level_draws(level) ==
    IF SplitsAtLevel(level)
    THEN (level_end(level) - level_begin(level)) * learner_parameters_.num_of_features
    ELSE 0

\* the tree the level passes level..last_level leave when every level is
\* trained as one part, on the draws the engine hands out
RECURSIVE train_levels_unchunked(_, _, _, _)
train_levels_unchunked(t, level, last_level, draws) ==
    IF level > last_level
    THEN t
    ELSE LET whole_level ==
                 get_sample_node_map(t, level_begin(level), level_end(level))
             trained ==
                 train_tree_level_part(t, whole_level, level,
                                       features_of_level(draws, level)).tree
         IN  train_levels_unchunked(trained, level + 1, last_level,
                 SubSeq(draws, num_of_level_draws(level) + 1, Len(draws)))

UnchunkedTree(last_level) ==
    train_levels_unchunked(
        [ Tree(training_parameters_.tree_depth) EXCEPT ![0].leaf = TRUE ],
        1, last_level, rnd_engine)

\* C20: for the same bag and the same draws of the random engine, the tree
\* train_tree has grown after each level pass, and the tree it returns, is
\* the tree (leaf flags, split points, node statistics) that training every
\* level as one part gives, whatever level_part_size is.
C20_LevelPartSizeIndependent ==
    /\ pc = "train_tree" => tree = UnchunkedTree(current_level - 1)
    /\ (pc \in { "train_forest", "done" } /\ forest # << >>) =>
           forest[Len(forest)] = UnchunkedTree(training_parameters_.tree_depth)

\* a returned tree with a split root and a split node in level 2, grown in
\* parts of one node on two different draws for the nodes of level 2
C20_Witness ==
    /\ pc = "done"
    /\ training_parameters_.level_part_size = 1
    /\ training_parameters_.tree_depth = 3
    /\ Len(rnd_engine) = 3
    /\ rnd_engine[2] # rnd_engine[3]
    /\ ~forest[1][0].leaf
    /\ \E n \in 1..2 : ~forest[1][n].leaf
    /\ forest[1] = UnchunkedTree(3)

\* a returned tree grown with a level_part_size above the width of every
\* level that splits
C20_WitnessLargePart ==
    /\ pc = "done"
    /\ training_parameters_.level_part_size = 3
    /\ training_parameters_.tree_depth = 3
    /\ ~forest[1][0].leaf

\* the offsets are drawn from [0..0] only
ZeroOffsets ==
    /\ learner_parameters_.feature_offset_x_range_low = 0
    /\ learner_parameters_.feature_offset_x_range_high = 0
    /\ learner_parameters_.feature_offset_y_range_low = 0
    /\ learner_parameters_.feature_offset_y_range_high = 0

\* C8: with offsets drawn from [0..0] only, all candidate gains are 0 and
\* every node considered at level 1 becomes a leaf, for the default
\* minimum_information_gain and any minimum_num_of_samples.
C8_ZeroFeaturesMakeLeaves ==
    ( /\ ZeroOffsets
      /\ training_parameters_.minimum_information_gain = DefaultMinimumInformationGain
      /\ part.level = 1 ) =>
        \A n \in part.nodes :
            /\ part.split => part.best_split_point_batch[n].information_gain = 0
            /\ tree[n].leaf

\* C9: train_forest trains each tree on a freshly drawn bag: a bag is drawn
\* between the starts of two trees.
C9_FreshBagPerTree ==
    \A i, j \in DOMAIN bagging.tree_draw :
        i # j => bagging.tree_draw[i] # bagging.tree_draw[j]

----------------------------------------------------------------------------
(* Properties of the weak learner called on its own *)

\* C21: with binary_images, the candidates of sample_split_points carry for
\* every feature exactly the two thresholds -0.5 and +0.5 in this order,
\* whatever num_of_thresholds, the threshold range and
\* adaptive_threshold_range are, and their total_size is 2 * num_of_features.
C21_BinaryThresholdsOnly ==
    ( /\ learner_call.call = "sample_split_points"
      /\ learner_parameters_.binary_images ) =>
        /\ Len(learner_call.split_points) = learner_parameters_.num_of_features
        /\ \A i_f \in DOMAIN learner_call.split_points :
               learner_call.split_points[i_f].thresholds = << -1, 1 >>
        /\ total_size(learner_call.split_points)
               = 2 * learner_parameters_.num_of_features

\* candidates sampled for two features of binary images over a non-empty
\* sample range, with num_of_thresholds 0, a threshold range of 0 width and
\* the adaptive range on
C21_Witness ==
    /\ learner_call.call = "sample_split_points"
    /\ learner_parameters_.binary_images
    /\ learner_parameters_.num_of_features = 2
    /\ learner_parameters_.num_of_thresholds = 0
    /\ learner_parameters_.threshold_range_low = 0
    /\ learner_parameters_.threshold_range_high = 0
    /\ learner_parameters_.adaptive_threshold_range
    /\ learner_call.pointers # << >>
    /\ total_size(learner_call.split_points) = 4

\* the pixel difference of a feature is the same on every sample of a range
ConstantDifference(pointers, feature) ==
    \A p, q \in Range(pointers) :
        compute_pixel_difference(feature, samples_[p])
            = compute_pixel_difference(feature, samples_[q])

\* C22: with the adaptive threshold range on and binary_images off, every
\* threshold sample_split_points draws for a feature whose pixel difference
\* is the same on every sample of the range (positive, zero or negative)
\* equals 0.
C22_ConstantFeatureThresholdsZero ==
    ( /\ learner_call.call = "sample_split_points"
      /\ ~learner_parameters_.binary_images
      /\ learner_parameters_.adaptive_threshold_range ) =>
        \A i_f \in DOMAIN learner_call.split_points :
            ConstantDifference(learner_call.pointers,
                               learner_call.split_points[i_f].feature) =>
                \A j \in DOMAIN learner_call.split_points[i_f].thresholds :
                    learner_call.split_points[i_f].thresholds[j] = 0

----------------------------------------------------------------------------
(* Properties of the construction of images *)

\* C23: no Image exists whose data grid and label grid differ in shape:
\* every constructor, the copying and the moving one, and load_from_files
\* fail on grids of different shapes.
C23_NoMismatchedImage ==
    \A i \in DOMAIN images_ :
        /\ rows(images_[i].label) = rows(images_[i].data)
        /\ cols(images_[i].label) = cols(images_[i].data)

----------------------------------------------------------------------------
(* Properties of split point candidates built feature by feature *)

\* the position of threshold j (from 1) of the candidate at position i (from
\* 1) in the order of the features and, per feature, of its thresholds: the
\* lengths of the earlier lists, plus j - 1
FlattenedPosition(split_points, i, j) ==
    total_size(SubSeq(split_points, 1, i - 1)) + (j - 1)

\* C24: get_split_point(index) returns, for index < total_size, the pair of
\* feature and threshold at the flattened position index; for index >=
\* total_size it returns no split point (it signals an error).
C24_GetSplitPointByPosition ==
    learner_call.call = "get_split_point" =>
        IF learner_call.index < total_size(learner_call.split_points)
        THEN \E i \in DOMAIN learner_call.split_points :
             \E j \in DOMAIN learner_call.split_points[i].thresholds :
                /\ FlattenedPosition(learner_call.split_points, i, j) = learner_call.index
                /\ learner_call.split_point =
                       ImageSplitPoint(learner_call.split_points[i].feature,
                                       learner_call.split_points[i].thresholds[j])
        ELSE learner_call.split_point = NoSplitPoint

\* get_split_point(2) returned the only threshold of the second feature
\* after a first feature of two thresholds
C24_Witness ==
    /\ learner_call.call = "get_split_point"
    /\ Len(learner_call.split_points) = 2
    /\ Len(learner_call.split_points[1].thresholds) = 2
    /\ Len(learner_call.split_points[2].thresholds) = 1
    /\ learner_call.split_points[1].feature # learner_call.split_points[2].feature
    /\ learner_call.index = 2
    /\ learner_call.split_point =
           ImageSplitPoint(learner_call.split_points[2].feature,
                           learner_call.split_points[2].thresholds[1])

\* get_split_point(total_size) signalled an error on candidates that are not
\* empty
C24_WitnessError ==
    /\ learner_call.call = "get_split_point"
    /\ total_size(learner_call.split_points) = 3
    /\ learner_call.index = 3
    /\ learner_call.split_point = NoSplitPoint

\* the samples behind pointers a split point sends left, and those it sends
\* right, by left_direction on the feature's pixel difference
SideOf(pointers, split_point, left) ==
    SelectSeq(pointers,
              LAMBDA p : left_direction(split_point.threshold,
                             compute_pixel_difference(split_point.feature, samples_[p]))
                         = left)

\* C30: for candidates whose threshold lists differ in length, the slot
\* compute_split_statistics accumulates feature i with its threshold j into
\* is k = the lengths of the earlier lists + j, counted from 0: the index at
\* which get_split_point(k) returns this pair; slot k of the result holds the
\* labels of the samples get_split_point(k) sends left and right.
C30_SlotIsFlattenedPosition ==
    learner_call.call = "compute_split_statistics" =>
        \A i \in DOMAIN learner_call.split_points :
        \A j \in DOMAIN learner_call.split_points[i].thresholds :
            LET k == FlattenedPosition(learner_call.split_points, i, j)
                split_point == get_split_point(learner_call.split_points, k)
            IN  /\ statistics_index_offset_of(learner_call.split_points, i) + (j - 1) = k
                /\ learner_call.split_statistics.left[k].histogram =
                       accumulate_range(create_statistics,
                           SideOf(learner_call.pointers, split_point, TRUE)).histogram
                /\ learner_call.split_statistics.right[k].histogram =
                       accumulate_range(create_statistics,
                           SideOf(learner_call.pointers, split_point, FALSE)).histogram

----------------------------------------------------------------------------
(* Properties of training runs that write checkpoints *)

\* a checkpoint write of the run has failed
CheckpointWriteFailed ==
    \E w \in DOMAIN checkpoints : checkpoints[w].outcome # "written"

\* C25: when a checkpoint write fails during train_tree or train_forest,
\* training is not aborted: the levels and trees that remain are trained and
\* the forest is returned.
C25_CheckpointFailureTrainingContinues ==
    CheckpointWriteFailed => pc # "aborted"

----------------------------------------------------------------------------
(* Determinism of training *)

C26_WitnessOtherDraws ==
    /\ pc = "done"
    /\ Len(forest) = 2
    /\ bagging.tree_engine[1] # bagging.tree_engine[2]
    /\ forest[1] # forest[2]

----------------------------------------------------------------------------
(* Reloading a batch *)

\* the last provider operation was a load_sample_batch that returned
CompletedLoad ==
    /\ call_log # << >>
    /\ call_log[1] = LoadSampleBatchCall
    /\ \A c \in DOMAIN call_log :
           call_log[c].call = "get_image" => ~call_log[c].throws

\* the sample lists of a sequence of load_samples_from_image calls, one after
\* the other
RECURSIVE ConcatSamples(_)
ConcatSamples(calls) ==
    IF calls = << >> THEN << >> ELSE Head(calls).samples \o ConcatSamples(Tail(calls))

\* C27: the sample list load_sample_batch leaves is determined by the batch
\* and the draws of the random engine: it is the lists its
\* load_samples_from_image calls drew for the items of the batch, in order,
\* each a list that image and the draws give, whatever samples_ and the image
\* cache held before the call; nothing of an earlier load is kept or doubled.
C27_ReloadGivesSameSamples ==
    CompletedLoad =>
        /\ samples_ = ConcatSamples(LoadCalls)
        /\ \A k \in DOMAIN LoadCalls :
               LoadCalls[k].samples \in Appended(LoadCalls[k].image_index)

\* a load of a batch whose images were all in the cache before the call
C27_Witness ==
    /\ CompletedLoad
    /\ Len(LoadCalls) = 2
    /\ GetImageCalls = << >>
    /\ samples_ # << >>
    /\ samples_ = ConcatSamples(LoadCalls)

----------------------------------------------------------------------------
(* Properties of the pixel reads and of evaluate *)

\* C28: a pixel read at an offset gives 0 when the pixel lies outside
\* [0, width) x [0, height) (zero padding, not the nearest pixel of the
\* image), the data value of the pixel otherwise; it gives a value for every
\* offset.
C28_ZeroPaddedPixelRead ==
    learner_call.call = "compute_pixel_value" =>
        LET image == images_[learner_call.sample.image]
            x == learner_call.sample.x + learner_call.offset_x
            y == learner_call.sample.y + learner_call.offset_y
        IN  /\ learner_call.value \in Int
            /\ IF x \in 0..(image.width - 1) /\ y \in 0..(image.height - 1)
               THEN learner_call.value = image.data[<<x, y>>]
               ELSE learner_call.value = 0

\* a read one pixel past the right edge, from a pixel whose value is not 0,
\* gave 0
C28_Witness ==
    /\ learner_call.call = "compute_pixel_value"
    /\ learner_call.sample.x + learner_call.offset_x
           = images_[learner_call.sample.image].width
    /\ learner_call.offset_y = 0
    /\ images_[learner_call.sample.image].data[<<learner_call.sample.x,
                                                 learner_call.sample.y>>] # 0
    /\ learner_call.value = 0

\* a read inside the image gave a data value that is not 0
C28_WitnessInside ==
    /\ learner_call.call = "compute_pixel_value"
    /\ learner_call.offset_x = -1
    /\ learner_call.offset_y = 0
    /\ learner_call.value # 0

\* C29: over the whole 16-bit pixel range, ImageSplitPoint::evaluate sends a
\* sample left exactly when the true difference of its two pixels is below
\* the threshold: the side training gave it by
\* ImageFeature::compute_pixel_difference and left_direction.
C29_EvaluateAgreesWithTraining ==
    learner_call.call = "evaluate" =>
        /\ learner_call.training_left =
               ( 2 * compute_pixel_difference(learner_call.split_point.feature,
                                              learner_call.sample)
                     < learner_call.split_point.threshold )
        /\ learner_call.left = learner_call.training_left

----------------------------------------------------------------------------
(* C31 *)

\* the routing of the bag through the tree as it stood when the pass of a
\* level began: a descent that reaches a node of the level ends there
LevelRouting(t, level) ==
    get_sample_node_map(
        [ n \in DOMAIN t |->
            IF n \in level_begin(level)..(level_end(level) - 1)
            THEN [ t[n] EXCEPT !.leaf = TRUE ]
            ELSE t[n] ],
        level_begin(level), level_end(level))

\* candidates, split statistics and best split are there for all the nodes
Scored(position, nodes) ==
    /\ nodes \subseteq DOMAIN position.split_points_batch
    /\ nodes \subseteq DOMAIN position.split_statistics_batch
    /\ nodes \subseteq DOMAIN position.best_split_point_batch

\* what C31 asks of one step of a level pass
ScoredBeforeWritten ==
    pc \in { "train_tree_level", "train_tree_level_part" } =>
       /\ node_to_sample_map = LevelRouting(tree, current_level)
       /\ tree' # tree => node_to_sample_map' = node_to_sample_map
       /\ ( \E n \in DOMAIN tree : \/ tree'[n].leaf # tree[n].leaf
                                   \/ tree'[n].split_point # tree[n].split_point )
          => ( /\ pc = "train_tree_level_part"
               /\ Scored(part.steps[part.at], part.nodes) )

\* C31: while a level is passed, node_to_sample_map holds the routing of the
\* whole bag as computed before the first node of the level was touched, and
\* no step of the pass changes it; a step that changes a leaf flag or a
\* split point of the tree is taken inside train_tree_level_part, from a
\* position where candidates, split statistics and best split are there for
\* every node of the part.
C31_ScoredBeforeWritten == [][ScoredBeforeWritten]_vars

\* a part of two nodes in which the split of one node is written and the
\* round of the other is still to come
C31_Witness ==
    /\ pc = "train_tree_level_part"
    /\ Cardinality(part.nodes) = 2
    /\ \E n \in part.nodes : /\ ~tree[n].leaf
                             /\ tree[n].split_point # NoSplitPoint
                             /\ tree[left_child(n)].leaf
    /\ node_to_sample_map = LevelRouting(tree, current_level)

----------------------------------------------------------------------------
(* C32 *)

\* get_sample_node_map has just returned to train_tree_level: the tree is
\* the one the samples were routed through
FrontierMapBuilt ==
    /\ pc = "train_tree_level"
    /\ node_it = level_begin(current_level)

\* the buckets that hold the pointer to sample i
BucketsOf(i) ==
    { n \in DOMAIN node_to_sample_map :
        \E k \in 1..Len(node_to_sample_map[n]) : node_to_sample_map[n][k] = i }

\* how often bucket n holds the pointer to sample i
TimesInBucket(n, i) ==
    Cardinality({ k \in 1..Len(node_to_sample_map[n]) : node_to_sample_map[n][k] = i })

----------------------------------------------------------------------------
(* C33 *)

\* the nodes of the level of the pass under way
NodesOfCurrentLevel == (Pow2(current_level - 1) - 1)..(Pow2(current_level) - 2)

\* what C33 asks of one step taken inside train_tree
LevelPassFrame ==
    pc \in { "train_tree", "train_tree_level" } =>
       \A n \in DOMAIN tree :
          tree'[n] # tree[n] =>
             \/ n \in NodesOfCurrentLevel
             \/ /\ \E m \in NodesOfCurrentLevel : n \in { left_child(m), right_child(m) }
                /\ tree'[n].split_point = tree[n].split_point
                /\ tree'[n].statistics = tree[n].statistics

\* C33: every step of train_tree taken while the pass of level l is under
\* way leaves all nodes as they are except the nodes of level l, whose
\* statistics, split point and leaf flag it may write, and their children,
\* of which it may write the leaf flag only; so nothing of an earlier level
\* is written again.
C33_LevelPassWritesItsLevelOnly == [][LevelPassFrame]_vars

\* the first part of level 2 is done: a node of level 2 is split below the
\* split root, and its children are leaves
C33_Witness ==
    /\ pc = "train_tree_level"
    /\ current_level = 2
    /\ part.level = 2
    /\ ~tree[0].leaf
    /\ tree[0].split_point # NoSplitPoint
    /\ \E n \in part.nodes : /\ ~tree[n].leaf
                             /\ tree[left_child(n)].leaf
                             /\ tree[right_child(n)].leaf

----------------------------------------------------------------------------
(* C34 *)

\* what C34 asks of one step of train_tree_level: the loop starts at the
\* left end of the level; a round of the loop takes the nodes from node_it
\* on, at least one, at most level_part_size of them when that is above 0
\* (fewer only at the right end of the level) and the whole level
\* otherwise; the loop is left with node_it at the right end
ChunkStep ==
    /\ pc = "train_tree" /\ pc' = "train_tree_level"
          => node_it' = Pow2(current_level - 1) - 1
    /\ pc = "train_tree_level" /\ node_it' # node_it
          => /\ part'.nodes = node_it..(node_it' - 1)
             /\ node_it' > node_it
             /\ node_it' <= Pow2(current_level) - 1
             /\ IF training_parameters_.level_part_size > 0
                THEN /\ node_it' - node_it <= training_parameters_.level_part_size
                     /\ node_it' - node_it < training_parameters_.level_part_size
                           => node_it' = Pow2(current_level) - 1
                ELSE /\ node_it = Pow2(current_level - 1) - 1
                     /\ node_it' = Pow2(current_level) - 1
    /\ pc = "train_tree_level" /\ pc' # "train_tree_level"
          => node_it = Pow2(current_level) - 1

\* C34: whatever level_part_size is, the loop of train_tree_level goes
\* through the level in consecutive parts from its left end to its right
\* end, each node in one part, of the sizes said, and train_tree_level
\* returns.
C34_LevelInChunks ==
    /\ [][ChunkStep]_vars
    /\ (pc = "train_tree_level") ~> (pc \in { "train_tree", "aborted" })

\* level 3 has been passed in parts of 3: the last part is node 6 alone
C34_Witness ==
    /\ pc = "train_tree_level"
    /\ training_parameters_.level_part_size = 3
    /\ current_level = 3
    /\ node_it = 7
    /\ part.nodes = { 6 }

\* a level of two nodes passed in one part, level_part_size being negative
C34_WitnessNegative ==
    /\ pc = "train_tree_level"
    /\ training_parameters_.level_part_size < 0
    /\ current_level = 2
    /\ part.nodes = { 1, 2 }

----------------------------------------------------------------------------
(* C35 *)

\* the candidates the loop of thread t runs over
FeatureRange(t) ==
    { i \in 0..(Len(parallel_call.split_points) - 1) :
        parallel_call.begin[t] <= i /\ i < parallel_call.end[t] }

\* C35: in a call with num_of_threads = n >= 1 on F candidate features, F
\* above, equal to or below n or 0, thread t = 0..n-1 is given the range
\* [floor(t*F/n), floor((t+1)*F/n)); the ranges follow one another from 0 to
\* F, and every feature 0..F-1 is in the range of one thread; when the call
\* has returned, every thread has come to the end of its range.
C35_RangesPartitionFeatures ==
    ( parallel_call.pc \in { "threads", "returned" } /\ parallel_call.num_of_threads >= 1 ) =>
        LET n == parallel_call.num_of_threads
            F == Len(parallel_call.split_points)
        IN  /\ DOMAIN parallel_call.begin = 0..(n - 1)
            /\ DOMAIN parallel_call.end = 0..(n - 1)
            /\ \A t \in 0..(n - 1) :
                  /\ parallel_call.begin[t] = (t * F) \div n
                  /\ parallel_call.end[t] = ((t + 1) * F) \div n
                  /\ parallel_call.begin[t] <= parallel_call.end[t]
                  /\ t < n - 1 => parallel_call.end[t] = parallel_call.begin[t + 1]
            /\ parallel_call.begin[0] = 0
            /\ parallel_call.end[n - 1] = F
            /\ \A i \in 0..(F - 1) :
                  Cardinality({ t \in 0..(n - 1) : i \in FeatureRange(t) }) = 1
            /\ parallel_call.pc = "returned" =>
                  \A t \in 0..(n - 1) : parallel_call.next[t] = parallel_call.end[t]

\* a call with three threads on two features has returned: one thread had
\* an empty range
C35_Witness ==
    /\ parallel_call.pc = "returned"
    /\ parallel_call.num_of_threads = 3
    /\ Len(parallel_call.split_points) = 2
    /\ \E t \in 0..2 : FeatureRange(t) = {}
    /\ \A t \in 0..2 : parallel_call.next[t] = parallel_call.end[t]

\* a call with two threads on no feature has returned
C35_WitnessNoFeature ==
    /\ parallel_call.pc = "returned"
    /\ parallel_call.num_of_threads = 2
    /\ Len(parallel_call.split_points) = 0

----------------------------------------------------------------------------
(* C36 *)

\* C36: a call with num_of_threads <= 0 runs as many threads as
\* std::thread::hardware_concurrency() reports, and whatever that value is
\* it returns statistics equal slot by slot to those of
\* compute_split_statistics.
C36_HardwareHintEqualsSerial ==
    (parallel_call.pc = "returned" /\ parallel_call.num_of_threads <= 0) =>
        LET serial == compute_split_statistics(SampleRange, parallel_call.split_points)
        IN  /\ NumOfWorkers \in HardwareConcurrency
            /\ DOMAIN parallel_call.split_statistics.left = DOMAIN serial.left
            /\ \A k \in DOMAIN serial.left :
                  /\ parallel_call.split_statistics.left[k] = serial.left[k]
                  /\ parallel_call.split_statistics.right[k] = serial.right[k]

\* the calls whose hint is above 0 do return the serial statistics
C36_PositiveHintEqualsSerial ==
    ( /\ parallel_call.pc = "returned"
      /\ parallel_call.num_of_threads <= 0
      /\ NumOfWorkers > 0 ) =>
        LET serial == compute_split_statistics(SampleRange, parallel_call.split_points)
        IN  /\ DOMAIN parallel_call.split_statistics.left = DOMAIN serial.left
            /\ \A k \in DOMAIN serial.left :
                  /\ parallel_call.split_statistics.left[k] = serial.left[k]
                  /\ parallel_call.split_statistics.right[k] = serial.right[k]

----------------------------------------------------------------------------
(* C37 *)

\* the pixel differences of a feature over a sample range, in half units
Differences(pointers, feature) ==
    { 2 * compute_pixel_difference(feature, samples_[pointers[k]]) : k \in DOMAIN pointers }

Lowest(values) == CHOOSE v \in values : \A w \in values : v <= w

Highest(values) == CHOOSE v \in values : \A w \in values : v >= w

\* C37: with the adaptive threshold range on and binary_images off, for a
\* feature whose pixel differences over the (non-empty) sample range are not
\* all equal, compute_adaptive_threshold_range returns the lowest and the
\* highest of the differences, of whatever sign they are, and every
\* threshold sample_split_points draws for the feature lies between the two.
C37_AdaptiveRangeIsMinMax ==
    ( /\ learner_call.call = "sample_split_points"
      /\ ~learner_parameters_.binary_images
      /\ learner_parameters_.adaptive_threshold_range ) =>
        \A i_f \in DOMAIN learner_call.split_points :
            LET feature == learner_call.split_points[i_f].feature
                values == Differences(learner_call.pointers, feature)
            IN  Cardinality(values) >= 2 =>
                   /\ compute_adaptive_threshold_range(learner_call.pointers, feature)
                          = <<Lowest(values), Highest(values)>>
                   /\ \A j \in DOMAIN learner_call.split_points[i_f].thresholds :
                         /\ Lowest(values) <= learner_call.split_points[i_f].thresholds[j]
                         /\ learner_call.split_points[i_f].thresholds[j] <= Highest(values)

\* the same for the features that have a difference above 0 on the range
C37_MinMaxWithPositiveDifference ==
    ( /\ learner_call.call = "sample_split_points"
      /\ ~learner_parameters_.binary_images
      /\ learner_parameters_.adaptive_threshold_range ) =>
        \A i_f \in DOMAIN learner_call.split_points :
            LET feature == learner_call.split_points[i_f].feature
                values == Differences(learner_call.pointers, feature)
            IN  ( Cardinality(values) >= 2 /\ \E v \in values : v > 0 ) =>
                   /\ compute_adaptive_threshold_range(learner_call.pointers, feature)
                          = <<Lowest(values), Highest(values)>>
                   /\ \A j \in DOMAIN learner_call.split_points[i_f].thresholds :
                         /\ Lowest(values) <= learner_call.split_points[i_f].thresholds[j]
                         /\ learner_call.split_points[i_f].thresholds[j] <= Highest(values)

----------------------------------------------------------------------------
(* C38 *)

\* the part of the pass with current_level = 1 is done
RootPassDone ==
    /\ pc = "train_tree_level"
    /\ current_level = 1
    /\ node_it > 0

\* C38: when train_tree comes to its first level pass, the root is a leaf
\* that holds no statistics and no split point; the frontier map of the pass
\* with current_level = 1 has the root as its one bucket, with every sample
\* of the bag in it; that pass writes the statistics of the whole bag into
\* the root and, when the tree is deeper than one level, sets the root's
\* split point and its leaf flag from the best split found for it.
C38_RootIsTheFirstLevel ==
    /\ ( pc = "train_tree" /\ current_level = 1 ) =>
           /\ tree[0].leaf
           /\ tree[0].statistics = create_statistics
           /\ tree[0].split_point = NoSplitPoint
    /\ ( pc = "train_tree_level" /\ current_level = 1 ) =>
           /\ DOMAIN node_to_sample_map = { 0 }
           /\ node_to_sample_map[0] = SampleRange
    /\ RootPassDone =>
           /\ part.level = 1
           /\ part.nodes = { 0 }
           /\ tree[0].statistics = accumulate_range(create_statistics, SampleRange)
           /\ IF training_parameters_.tree_depth > 1
              THEN /\ tree[0].leaf = MakesLeaf(part.best_split_point_batch[0])
                   /\ tree[0].split_point = part.best_split_point_batch[0].split_point
                   /\ tree[1].leaf /\ tree[2].leaf
              ELSE /\ tree[0].leaf
                   /\ tree[0].split_point = NoSplitPoint

\* the pass with current_level = 1 has split the root of a tree trained on a
\* bag that is not empty
C38_Witness ==
    /\ RootPassDone
    /\ Len(samples_) > 0
    /\ tree[0].statistics.num_of_samples = Len(samples_)
    /\ ~tree[0].leaf
    /\ tree[0].split_point # NoSplitPoint

----------------------------------------------------------------------------
(* C39 *)

\* the prefix the parameters hold for the format of a checkpoint write
OwnPrefix(of, format) ==
    IF of = "tree"
    THEN IF format = "json"
         THEN training_parameters_.temporary_json_tree_file_prefix
         ELSE training_parameters_.temporary_binary_tree_file_prefix
    ELSE IF format = "json"
         THEN training_parameters_.temporary_json_forest_file_prefix
         ELSE training_parameters_.temporary_binary_forest_file_prefix

\* C39: every checkpoint write is named from the prefix of its own format
\* and the level or tree it follows; the checkpoint of a format is written
\* after a level exactly when the tree prefix of that format is not empty
\* (and so for the forest after a tree); no two writes of different formats
\* go to the same file.
C39_CheckpointsUseOwnPrefix ==
    /\ \A k \in DOMAIN checkpoints :
          /\ OwnPrefix(checkpoints[k].of, checkpoints[k].format) # ""
          /\ checkpoints[k].file[1] = OwnPrefix(checkpoints[k].of, checkpoints[k].format)
    /\ \A j, k \in DOMAIN checkpoints :
          checkpoints[j].format # checkpoints[k].format
              => checkpoints[j].file # checkpoints[k].file
    /\ ( pc = "train_tree" /\ current_level > 1 ) =>
          \A format \in { "json", "binary" } :
             OwnPrefix("tree", format) # "" =>
                \E k \in DOMAIN checkpoints :
                   /\ checkpoints[k].of = "tree"
                   /\ checkpoints[k].format = format
                   /\ checkpoints[k].file[2] = current_level - 1
    /\ ( pc = "train_forest" /\ tree_index > 0 ) =>
          \A format \in { "json", "binary" } :
             OwnPrefix("forest", format) # "" =>
                \E k \in DOMAIN checkpoints :
                   /\ checkpoints[k].of = "forest"
                   /\ checkpoints[k].format = format
                   /\ checkpoints[k].file[2] = tree_index - 1

\* what the writes do have: the JSON checkpoints are written when their own
\* prefix is set and are named from it
C39_JsonCheckpointsUseOwnPrefix ==
    \A k \in DOMAIN checkpoints :
       checkpoints[k].format = "json" =>
          /\ OwnPrefix(checkpoints[k].of, "json") # ""
          /\ checkpoints[k].file[1] = OwnPrefix(checkpoints[k].of, "json")

----------------------------------------------------------------------------
(* C40 *)

\* the samples of the bag whose routing through t ends at node n, in the
\* order of the bag
EndingAt(t, n) ==
    SelectSeq(SampleRange, LAMBDA i : tree_evaluate(t, 0, samples_[i]) = n)

\* the nodes at which some sample of the bag ends hold the statistics of
\* the samples that end there
StatisticsOfRoutedSamples(t) ==
    \A n \in DOMAIN t :
       EndingAt(t, n) # << >> =>
          t[n].statistics = accumulate_range(create_statistics, EndingAt(t, n))

\* C40: in the tree train_tree returns, every node at which the routing of a
\* bag sample ends holds the statistics accumulated over the bag samples
\* that end at it and over no other, the nodes of the last level, which are
\* never split, among them.
C40_LeafStatisticsAreTheRoutedSamples ==
    ( pc = "train_tree" /\ current_level > training_parameters_.tree_depth ) =>
        StatisticsOfRoutedSamples(tree)

\* train_tree returns a tree of depth 2 with a split root: samples end at
\* both nodes of the last level, which hold their statistics
C40_Witness ==
    /\ pc = "train_tree"
    /\ current_level > training_parameters_.tree_depth
    /\ training_parameters_.tree_depth = 2
    /\ ~tree[0].leaf
    /\ \A n \in { 1, 2 } :
          /\ EndingAt(tree, n) # << >>
          /\ tree[n].statistics.num_of_samples = Len(EndingAt(tree, n))

----------------------------------------------------------------------------
====
